---- MODULE Spec2Model ----
(***************************************************************************)
(* Model of the fake/duplicate report detector (ai/fake_detection.py) and  *)
(* of the places of app.py and storage/db.py that hand it its inputs.      *)
(*                                                                         *)
(* Conventions.                                                            *)
(*  - A Python str is a sequence of one-character strings, so that len,    *)
(*    lower, strip, split, isupper and `in` are computed on characters.    *)
(*  - Scores are exact decimals in thousandths (0.3 is 300); weights are   *)
(*    in tenths (0.4 is 4).  A weighted sum is in ten-thousandths.         *)
(*  - A Python call that may raise yields a record [exc, val]; exc is      *)
(*    "none" or the exception's class name.                                *)
(***************************************************************************)
EXTENDS Integers, Sequences, FiniteSets, TLC

(***************************************************************************)
(* Python values                                                           *)
(***************************************************************************)
\* The None object: a value that no str of the model equals.
None == <<"None">>

\* `if v:` / `not v` for an Optional[str].
Truthy(v) == v # None /\ v # <<>>

\* `a or b` on Optional[str] values.
PyOr(a, b) == IF Truthy(a) THEN a ELSE b

Ok(v) == [exc |-> "none", val |-> v]
Raise(e) == [exc |-> e, val |-> 0]

Min(a, b) == IF a <= b THEN a ELSE b
Abs(a) == IF a >= 0 THEN a ELSE 0 - a

Range(s) == {s[i] : i \in 1..Len(s)}

(***************************************************************************)
(* str methods                                                             *)
(***************************************************************************)
UpperCase == {"A","B","C","D","E","F","G","H","I","J","K","L","M",
              "N","O","P","Q","R","S","T","U","V","W","X","Y","Z"}
LowerCase == {"a","b","c","d","e","f","g","h","i","j","k","l","m",
              "n","o","p","q","r","s","t","u","v","w","x","y","z"}
Digits == {"0","1","2","3","4","5","6","7","8","9"}
Whitespace == {" "}

LowerOf ==
    [A |-> "a", B |-> "b", C |-> "c", D |-> "d", E |-> "e", F |-> "f", G |-> "g",
     H |-> "h", I |-> "i", J |-> "j", K |-> "k", L |-> "l", M |-> "m", N |-> "n",
     O |-> "o", P |-> "p", Q |-> "q", R |-> "r", S |-> "s", T |-> "t", U |-> "u",
     V |-> "v", W |-> "w", X |-> "x", Y |-> "y", Z |-> "z"]

\* str.lower()
Lower(s) == [i \in 1..Len(s) |-> IF s[i] \in UpperCase THEN LowerOf[s[i]] ELSE s[i]]

\* str.isupper(): at least one cased character and no lowercase one.
IsUpper(s) ==
    /\ \E i \in 1..Len(s) : s[i] \in UpperCase
    /\ \A i \in 1..Len(s) : s[i] \notin LowerCase

\* str.strip()
Strip(s) ==
    LET keep == {i \in 1..Len(s) : s[i] \notin Whitespace}
    IN IF keep = {} THEN <<>>
       ELSE LET lo == CHOOSE i \in keep : \A j \in keep : i <= j
                hi == CHOOSE i \in keep : \A j \in keep : i >= j
            IN SubSeq(s, lo, hi)

\* `sub in s`
Contains(s, sub) ==
    \E i \in 1..(Len(s) - Len(sub) + 1) : SubSeq(s, i, i + Len(sub) - 1) = sub

\* The maximal runs of characters of `chars` in s, left to right.
RECURSIVE Runs(_, _, _, _)
Runs(s, chars, i, cur) ==
    IF i > Len(s) THEN (IF cur = <<>> THEN <<>> ELSE <<cur>>)
    ELSE IF s[i] \in chars THEN Runs(s, chars, i + 1, Append(cur, s[i]))
    ELSE (IF cur = <<>> THEN <<>> ELSE <<cur>>) \o Runs(s, chars, i + 1, <<>>)

\* The characters of the model's strings that are not whitespace.
Printable == UpperCase \cup LowerCase \cup Digits \cup {",", ".", "!", "_"}

\* str.split(): the whitespace-separated words.
Split(s) == Runs(s, Printable, 1, <<>>)

(***************************************************************************)
(* The image store: os.path.exists / os.path.getsize                       *)
(***************************************************************************)
PathBig == <<"uploads", "photo.jpg">>
PathSmall == <<"uploads", "thumb.jpg">>
PathMissing == <<"uploads", "missing.jpg">>
PathVanishing == <<"uploads", "vanishing.jpg">>

\* Size in bytes of each stored file.
FileSize == (PathBig :> 2048) @@ (PathSmall :> 512) @@ (PathVanishing :> 4096)

\* Files removed between the exists() and the getsize() of one validation.
Vanishing == {PathVanishing}

path_exists(p) == p \in DOMAIN FileSize

path_getsize(p) ==
    IF p \in Vanishing \/ p \notin DOMAIN FileSize THEN Raise("OSError")
    ELSE Ok(FileSize[p])

(***************************************************************************)
(* FakeReportDetector.__init__ thresholds                                  *)
(***************************************************************************)
min_text_length == 10
proximity_threshold_m == 100
similarity_threshold == 700
temporal_window_minutes == 30

(***************************************************************************)
(* FakeReportDetector._validate_content                                    *)
(***************************************************************************)
spam_indicators ==
    { <<"c","l","i","c","k"," ","h","e","r","e">>,
      <<"f","r","e","e">>,
      <<"w","i","n"," ","n","o","w">>,
      <<"l","i","m","i","t","e","d"," ","t","i","m","e">>,
      <<"a","c","t"," ","n","o","w">> }

\* Variant: the spam penalty is added for every phrase that occurs.
TextSuspicion_per_phrase(text) ==
      (IF Len(Strip(text)) < min_text_length THEN 300 ELSE 0)
    + (IF 10 * Cardinality(Range(Lower(text))) < 3 * Len(text) THEN 400 ELSE 0)
    + 500 * Cardinality({ind \in spam_indicators : Contains(Lower(text), ind)})
    + (IF IsUpper(text) /\ Len(text) > 20 THEN 200 ELSE 0)

\* The four text checks, added up (thousandths).
TextSuspicion(text) ==
      (IF Len(Strip(text)) < min_text_length THEN 300 ELSE 0)
    + (IF 10 * Cardinality(Range(Lower(text))) < 3 * Len(text) THEN 400 ELSE 0)
    + (IF Cardinality({ind \in spam_indicators : Contains(Lower(text), ind)}) > 0
       THEN 500 ELSE 0)
    + (IF IsUpper(text) /\ Len(text) > 20 THEN 200 ELSE 0)

\* Variant: an error of the size check adds nothing.
ImageSuspicion_error_free(image_path) ==
    IF ~path_exists(image_path) THEN 300
    ELSE LET size == path_getsize(image_path)
         IN IF size.exc # "none" THEN 0
            ELSE IF size.val < 1024 THEN 400
            ELSE 0

\* The image check: exists, then getsize, any exception absorbed as +0.2.
ImageSuspicion(image_path) ==
    IF ~path_exists(image_path) THEN 300
    ELSE LET size == path_getsize(image_path)
         IN IF size.exc # "none" THEN 200
            ELSE IF size.val < 1024 THEN 400
            ELSE 0

\* Variant: the sum of the checks is returned without min(score, 1.0).
validate_content_uncapped(text, image_path) ==
    IF ~Truthy(text) /\ ~Truthy(image_path)
    THEN Ok([is_valid |-> FALSE, suspicion |-> 900])
    ELSE LET suspicion_score ==
                 (IF Truthy(text) THEN TextSuspicion(text) ELSE 0)
               + (IF Truthy(image_path) THEN ImageSuspicion(image_path) ELSE 0)
         IN Ok([is_valid |-> suspicion_score < 700, suspicion |-> suspicion_score])

\* Variant: no early return when text and image are both absent.
validate_content_no_early_return(text, image_path) ==
    LET suspicion_score ==
            (IF Truthy(text) THEN TextSuspicion(text) ELSE 0)
          + (IF Truthy(image_path) THEN ImageSuspicion(image_path) ELSE 0)
    IN Ok([is_valid |-> suspicion_score < 700,
           suspicion |-> Min(suspicion_score, 1000)])

validate_content(text, image_path) ==
    IF ~Truthy(text) /\ ~Truthy(image_path)
    THEN Ok([is_valid |-> FALSE, suspicion |-> 900])
    ELSE LET suspicion_score ==
                 (IF Truthy(text) THEN TextSuspicion(text) ELSE 0)
               + (IF Truthy(image_path) THEN ImageSuspicion(image_path) ELSE 0)
         IN Ok([is_valid |-> suspicion_score < 700,
                suspicion |-> Min(suspicion_score, 1000)])

(***************************************************************************)
(* The vector-space backend: TfidfVectorizer(min_df=1, max_features=5000,  *)
(* stop_words='english', ngram_range=(1, 2), lowercase=True,               *)
(* strip_accents='unicode') and its fit_transform.  The model's strings    *)
(* are ASCII (no accents) and its vocabularies stay far below 5000 terms.  *)
(***************************************************************************)
\* \w of the token pattern (?u)\b\w\w+\b
WordChars == UpperCase \cup LowerCase \cup Digits \cup {"_"}

\* The words of the 'english' stop list that occur in the model's strings.
StopWords ==
    { <<"a">>, <<"o","n">>, <<"i","t">>, <<"i","s">>, <<"h","e","r","e">>,
      <<"t","h","e">> }

IsToken(w) == Len(w) >= 2 /\ w \notin StopWords

\* Lowercase, find the runs of two or more word characters, drop stop words.
Tokens(doc) == SelectSeq(Runs(Lower(doc), WordChars, 1, <<>>), IsToken)

\* The unigrams, then the bigrams of neighbouring tokens: a term is a
\* sequence of one or two tokens.
Grams(doc) ==
    LET toks == Tokens(doc)
    IN IF toks = <<>> THEN <<>>
       ELSE [i \in 1..Len(toks) |-> <<toks[i]>>]
            \o [i \in 1..(Len(toks) - 1) |-> <<toks[i], toks[i + 1]>>]

\* Term frequency of `term` in doc.
TermCount(doc, term) ==
    LET g == Grams(doc) IN Cardinality({i \in 1..Len(g) : g[i] = term})

Vocabulary(documents) ==
    UNION {Range(Grams(documents[i])) : i \in 1..Len(documents)}

\* Smoothed idf, ln((1 + n) / (1 + df)) + 1, in tenths: IdfTenths[n][df].
IdfTenths ==
    << <<10>>,
       <<14, 10>>,
       <<17, 13, 10>>,
       <<19, 15, 12, 10>>,
       <<21, 17, 14, 12, 10>>,
       <<23, 18, 16, 13, 12, 10>>,
       <<24, 20, 17, 15, 13, 11, 10>>,
       <<25, 21, 18, 16, 14, 13, 11, 10>>,
       <<26, 22, 19, 17, 15, 14, 12, 11, 10>> >>

\* Code-point order of the characters a term can hold.
CharOrder ==
    <<" ", "0","1","2","3","4","5","6","7","8","9", "_",
      "a","b","c","d","e","f","g","h","i","j","k","l","m",
      "n","o","p","q","r","s","t","u","v","w","x","y","z">>

CharRank == [c \in Range(CharOrder) |-> CHOOSE i \in 1..Len(CharOrder) : CharOrder[i] = c]

\* The feature name of a term: its tokens joined by one space.
TermName(term) == IF Len(term) = 1 THEN term[1] ELSE term[1] \o <<" ">> \o term[2]

\* s < t for two strings.
StrLess(s, t) ==
    \E i \in 1..(Min(Len(s), Len(t)) + 1) :
        /\ \A j \in 1..(i - 1) : s[j] = t[j]
        /\ \/ i > Len(s) /\ i <= Len(t)
           \/ i <= Len(s) /\ i <= Len(t) /\ CharRank[s[i]] < CharRank[t[i]]

\* The terms of S in feature-name order (the columns of the matrix).
RECURSIVE SortTerms(_)
SortTerms(S) ==
    IF S = {} THEN <<>>
    ELSE LET first == CHOOSE x \in S :
                          \A y \in S \ {x} : StrLess(TermName(x), TermName(y))
         IN <<first>> \o SortTerms(S \ {first})

\* CountVectorizer.fit_transform: the term-count matrix X of the documents
\* over their own vocabulary, one row per document; an empty vocabulary
\* raises ValueError.
vec_count(documents) ==
    LET columns == SortTerms(Vocabulary(documents))
    IN IF columns = <<>> THEN Raise("ValueError")
       ELSE Ok([i \in 1..Len(documents) |->
                  [j \in 1..Len(columns) |-> TermCount(documents[i], columns[j])]])

\* Variant: a vectorizer that is fitted already keeps its idf_.
vec_fit_once(vec, X) ==
    IF vec.idf_ # <<>> THEN vec
    ELSE [vec EXCEPT !.idf_ =
            [j \in 1..Len(X[1]) |->
                IdfTenths[Len(X)][Cardinality({i \in 1..Len(X) : X[i][j] > 0})]]]

\* TfidfTransformer.fit(X): stores idf_ on the vectorizer object, one entry
\* per column of X.
vec_fit(vec, X) ==
    [vec EXCEPT !.idf_ =
        [j \in 1..Len(X[1]) |->
            IdfTenths[Len(X)][Cardinality({i \in 1..Len(X) : X[i][j] > 0})]]]

\* TfidfTransformer.transform(X): scales the columns of X by the idf_ the
\* object holds; a different number of columns raises ValueError.  (The
\* rows are then L2-normalised, which the cosine below does not depend on.)
vec_transform(vec, X) ==
    IF Len(vec.idf_) # Len(X[1]) THEN Raise("ValueError")
    ELSE Ok([i \in 1..Len(X) |-> [j \in 1..Len(X[1]) |-> X[i][j] * vec.idf_[j]]])

RECURSIVE DotFrom(_, _, _)
DotFrom(u, v, j) == IF j > Len(u) THEN 0 ELSE u[j] * v[j] + DotFrom(u, v, j + 1)

\* np.dot(u, v)
Dot(u, v) == DotFrom(u, v, 1)

\* Largest k with k * k <= x.
RECURSIVE ISqrtIn(_, _, _)
ISqrtIn(x, lo, hi) ==
    IF lo >= hi THEN lo
    ELSE LET mid == (lo + hi + 1) \div 2
         IN IF mid * mid <= x THEN ISqrtIn(x, mid, hi) ELSE ISqrtIn(x, lo, mid - 1)

ISqrt(x) == ISqrtIn(x, 0, Min(x, 46340))

\* dot / (norm_input * norm_corpus), 0.0 when a norm is 0 (thousandths).
Cosine(u, v) ==
    LET nu == Dot(u, u)
        nv == Dot(v, v)
    IN IF nu = 0 \/ nv = 0 THEN 0
       ELSE (1000 * Dot(u, v)) \div ISqrt(nu * nv)

MaxOf(S) == CHOOSE x \in S : \A y \in S : x >= y

(***************************************************************************)
(* FakeReportDetector._heuristic_text_similarity                           *)
(***************************************************************************)
\* set(s.lower().split())
WordSet(s) == Range(Split(Lower(s)))

\* len(intersection) / len(union), in thousandths.
Jaccard(A, B) == (1000 * Cardinality(A \cap B)) \div Cardinality(A \cup B)

heuristic_text_similarity(text, corpus) ==
    IF ~Truthy(text) \/ corpus = <<>> THEN 0
    ELSE LET text_words == WordSet(text)
         IN IF text_words = {} THEN 0
            ELSE MaxOf({0} \cup
                       {Jaccard(text_words, WordSet(corpus[i])) :
                           i \in {k \in 1..Len(corpus) :
                                     Truthy(corpus[k]) /\ WordSet(corpus[k]) # {}}})

(***************************************************************************)
(* FakeReportDetector._ensure_vectorizer, _calculate_text_similarity       *)
(***************************************************************************)
\* self.vectorizer after __init__: None when the import or the construction
\* failed (available = FALSE), otherwise a vectorizer that is not fitted.
ensure_vectorizer(import_ok) == [available |-> import_ok, idf_ |-> <<>>]

\* The cosine loop over corpus_vectors and np.max.
MaxCosine(matrix) ==
    MaxOf({Cosine(matrix[1], matrix[i]) : i \in 2..Len(matrix)})

\* The try block after `X = count matrix`: fit on the shared object, then
\* transform through it.  Yields the similarity or the raised exception,
\* and the vectorizer as the call leaves it.
FitTransformAndScore(vec, X) ==
    LET fitted == vec_fit(vec, X)
        tfidf_matrix == vec_transform(fitted, X)
    IN IF tfidf_matrix.exc # "none"
       THEN [exc |-> tfidf_matrix.exc, val |-> 0, vectorizer |-> fitted]
       ELSE [exc |-> "none", val |-> MaxCosine(tfidf_matrix.val), vectorizer |-> fitted]

\* Variant: a call on an instance without vectorizer attempts the
\* initialization again, and succeeds.
calculate_text_similarity_retry(vec, text, corpus) ==
    LET v == IF vec.available THEN vec ELSE ensure_vectorizer(TRUE)
    IN IF corpus = <<>> \/ ~Truthy(text)
       THEN [val |-> 0, vectorizer |-> v]
       ELSE LET X == vec_count(<<text>> \o corpus)
            IN IF X.exc # "none"
               THEN [val |-> heuristic_text_similarity(text, corpus), vectorizer |-> v]
               ELSE LET scored == FitTransformAndScore(v, X.val)
                    IN IF scored.exc # "none"
                       THEN [val |-> heuristic_text_similarity(text, corpus),
                             vectorizer |-> scored.vectorizer]
                       ELSE [val |-> scored.val, vectorizer |-> scored.vectorizer]

\* Variant: a failure of the vector computation leaves the instance
\* without its vectorizer.
calculate_text_similarity_disable_on_error(vec, text, corpus) ==
    IF ~vec.available \/ corpus = <<>> \/ ~Truthy(text)
    THEN [val |-> 0, vectorizer |-> vec]
    ELSE LET X == vec_count(<<text>> \o corpus)
         IN IF X.exc # "none"
            THEN [val |-> heuristic_text_similarity(text, corpus),
                  vectorizer |-> ensure_vectorizer(FALSE)]
            ELSE LET scored == FitTransformAndScore(vec, X.val)
                 IN IF scored.exc # "none"
                    THEN [val |-> heuristic_text_similarity(text, corpus),
                          vectorizer |-> ensure_vectorizer(FALSE)]
                    ELSE [val |-> scored.val, vectorizer |-> scored.vectorizer]

\* Returns [val, vectorizer]: the similarity (thousandths) and the state of
\* self.vectorizer after the call.  `except Exception` turns every failure
\* of the try block into the heuristic's value.
calculate_text_similarity(vec, text, corpus) ==
    IF ~vec.available \/ corpus = <<>> \/ ~Truthy(text)
    THEN [val |-> 0, vectorizer |-> vec]
    ELSE LET X == vec_count(<<text>> \o corpus)
         IN IF X.exc # "none"
            THEN [val |-> heuristic_text_similarity(text, corpus), vectorizer |-> vec]
            ELSE LET scored == FitTransformAndScore(vec, X.val)
                 IN IF scored.exc # "none"
                    THEN [val |-> heuristic_text_similarity(text, corpus),
                          vectorizer |-> scored.vectorizer]
                    ELSE [val |-> scored.val, vectorizer |-> scored.vectorizer]

(***************************************************************************)
(* Numbers: float(str), and the float fields of a stored location.         *)
(* A coordinate is an integer number of microdegrees.                      *)
(***************************************************************************)
DigitVal == [c \in Digits |-> CHOOSE n \in 0..9 : CharOrder[n + 2] = c]

RECURSIVE DigitsValue(_, _)
DigitsValue(ds, acc) ==
    IF ds = <<>> THEN acc ELSE DigitsValue(Tail(ds), 10 * acc + DigitVal[Head(ds)])

\* float(s) for a decimal literal [-]ddd[.dddddd], in microdegrees; any other
\* string of the model raises ValueError.
float(s) ==
    LET neg == s # <<>> /\ s[1] = "-"
        body == IF neg THEN Tail(s) ELSE s
        dots == {i \in 1..Len(body) : body[i] = "."}
        dot == IF dots = {} THEN Len(body) + 1 ELSE CHOOSE i \in dots : TRUE
        whole == SubSeq(body, 1, dot - 1)
        frac == SubSeq(body, dot + 1, Len(body))
        padded == SubSeq(frac \o <<"0","0","0","0","0","0">>, 1, 6)
    IN IF \/ Cardinality(dots) > 1
          \/ whole = <<>>
          \/ Len(whole) > 3
          \/ \E i \in 1..Len(body) : body[i] \notin Digits \cup {"."}
       THEN Raise("ValueError")
       ELSE Ok((IF neg THEN -1 ELSE 1)
               * (DigitsValue(whole, 0) * 1000000 + DigitsValue(padded, 0)))

\* A field of a stored location: a float, None, or a value that is no number.
Float(v) == [t |-> "float", v |-> v]
NoneField == [t |-> "None", v |-> 0]
StrField == [t |-> "str", v |-> 0]

(***************************************************************************)
(* _haversine_km                                                           *)
(***************************************************************************)
\* r = 6371, the radius of the earth in kilometres.
earth_radius_km == 6371

\* Thousandths of a millimetre per microdegree of arc: r * pi / 180.
MicroMmPerMicrodegree == (earth_radius_km * 174533) \div 10000

\* Separations beyond this many microdegrees (about 1.1 km) are all alike to
\* a 100 m threshold; clamping keeps the squares inside 32-bit integers.
ClampMicrodegrees == 10 * 1000

\* Great-circle distance in millimetres.  Exact on the sphere up to the
\* small-angle approximation for the model's coordinates, which lie within
\* 0.1 degree of the equator and away from the antimeridian; a field that is
\* no number raises TypeError (math.radians).
haversine_mm(lat1, lon1, lat2, lon2) ==
    IF lat2.t # "float" \/ lon2.t # "float" THEN Raise("TypeError")
    ELSE LET dlat == Min(Abs(lat2.v - lat1), ClampMicrodegrees)
             dlon == Min(Abs(lon2.v - lon1), ClampMicrodegrees)
         IN Ok((ISqrt(dlat * dlat + dlon * dlon) * MicroMmPerMicrodegree) \div 1000)

(***************************************************************************)
(* FakeReportDetector._check_location_proximity                            *)
(***************************************************************************)
\* `report.get("location") or {}` then .get("latitude") / .get("longitude")
ReportLat(report) ==
    IF report.location.t = "None" THEN NoneField ELSE report.location.latitude
ReportLng(report) ==
    IF report.location.t = "None" THEN NoneField ELSE report.location.longitude

\* Variant: the loop ends at the first report that has coordinates,
\* whatever its distance.
NearAny_first_only(input_lat, input_lng, recent_reports, i) ==
    LET located == {k \in i..Len(recent_reports) :
                       /\ ReportLat(recent_reports[k]).t # "None"
                       /\ ReportLng(recent_reports[k]).t # "None"}
    IN IF located = {} THEN FALSE
       ELSE LET k == CHOOSE k \in located : \A j \in located : k <= j
                distance == haversine_mm(input_lat, input_lng,
                                         ReportLat(recent_reports[k]),
                                         ReportLng(recent_reports[k]))
            IN distance.exc = "none" /\ distance.val <= proximity_threshold_m * 1000

\* Variant: a report whose distance raises ends the loop.
NearAny_stop_at_malformed(input_lat, input_lng, recent_reports, i) ==
    LET broken == {k \in i..Len(recent_reports) :
                      /\ ReportLat(recent_reports[k]).t # "None"
                      /\ ReportLng(recent_reports[k]).t # "None"
                      /\ haversine_mm(input_lat, input_lng,
                                      ReportLat(recent_reports[k]),
                                      ReportLng(recent_reports[k])).exc # "none"}
    IN \E k \in i..Len(recent_reports) :
          /\ \A j \in broken : k < j
          /\ ReportLat(recent_reports[k]).t # "None"
          /\ ReportLng(recent_reports[k]).t # "None"
          /\ haversine_mm(input_lat, input_lng, ReportLat(recent_reports[k]),
                          ReportLng(recent_reports[k])).val
               <= proximity_threshold_m * 1000

\* The loop over recent_reports from index i on: True at the first report
\* within the threshold; a report without coordinates, or whose distance
\* raises ValueError/TypeError, is passed over.
RECURSIVE NearAny(_, _, _, _)
NearAny(input_lat, input_lng, recent_reports, i) ==
    IF i > Len(recent_reports) THEN FALSE
    ELSE LET report_lat == ReportLat(recent_reports[i])
             report_lng == ReportLng(recent_reports[i])
         IN IF report_lat.t = "None" \/ report_lng.t = "None"
            THEN NearAny(input_lat, input_lng, recent_reports, i + 1)
            ELSE LET distance == haversine_mm(input_lat, input_lng, report_lat, report_lng)
                 IN IF distance.exc \in {"ValueError", "TypeError"}
                    THEN NearAny(input_lat, input_lng, recent_reports, i + 1)
                    ELSE IF distance.val <= proximity_threshold_m * 1000 THEN TRUE
                    ELSE NearAny(input_lat, input_lng, recent_reports, i + 1)

\* Variant: the body without the bounds check on the input coordinates.
ProximityBody_no_bounds(latitude, longitude, recent_reports) ==
    IF latitude = None \/ longitude = None THEN Ok(FALSE)
    ELSE LET input_lat == float(latitude)
             input_lng == float(longitude)
         IN IF input_lat.exc # "none" THEN Raise(input_lat.exc)
            ELSE IF input_lng.exc # "none" THEN Raise(input_lng.exc)
            ELSE Ok(NearAny(input_lat.val, input_lng.val, recent_reports, 1))

\* The body of the outer try block.
ProximityBody(latitude, longitude, recent_reports) ==
    IF latitude = None \/ longitude = None THEN Ok(FALSE)
    ELSE LET input_lat == float(latitude)
             input_lng == float(longitude)
         IN IF input_lat.exc # "none" THEN Raise(input_lat.exc)
            ELSE IF input_lng.exc # "none" THEN Raise(input_lng.exc)
            ELSE IF ~(/\ -90000000 <= input_lat.val /\ input_lat.val <= 90000000
                      /\ -180000000 <= input_lng.val /\ input_lng.val <= 180000000)
            THEN Ok(TRUE)
            ELSE Ok(NearAny(input_lat.val, input_lng.val, recent_reports, 1))

\* Variant: the body without the outer except clause.
check_location_proximity_unguarded(latitude, longitude, recent_reports) ==
    ProximityBody(latitude, longitude, recent_reports)

\* Variant: a parsing error is answered with False.
check_location_proximity_lenient(latitude, longitude, recent_reports) ==
    LET body == ProximityBody(latitude, longitude, recent_reports)
    IN IF body.exc \in {"ValueError", "TypeError"} THEN Ok(FALSE) ELSE body

\* except (ValueError, TypeError): return True
check_location_proximity(latitude, longitude, recent_reports) ==
    LET body == ProximityBody(latitude, longitude, recent_reports)
    IN IF body.exc \in {"ValueError", "TypeError"} THEN Ok(TRUE) ELSE body

(***************************************************************************)
(* Timestamps: created_at strings, datetime.fromisoformat, utcnow          *)
(***************************************************************************)
\* A created_at value.  fmt "None": null or missing; "empty": "";
\* "garbage": a string that is no ISO-8601 timestamp; "iso": the timestamp
\* of minute `minute`, followed by the suffix tz ("" , "Z" or "+00:00").
NoTimestamp == [fmt |-> "None", minute |-> 0, tz |-> ""]
GarbageTimestamp == [fmt |-> "garbage", minute |-> 0, tz |-> ""]
IsoTimestamp(m, suffix) == [fmt |-> "iso", minute |-> m, tz |-> suffix]

\* created_at.replace('Z', '+00:00')
ReplaceZ(created_at) ==
    IF created_at.tz = "Z" THEN [created_at EXCEPT !.tz = "+00:00"] ELSE created_at

\* datetime.fromisoformat: a naive datetime without suffix, an aware one
\* with an offset; anything else raises ValueError.
fromisoformat(s) ==
    IF s.fmt # "iso" \/ s.tz \notin {"", "+00:00"} THEN Raise("ValueError")
    ELSE Ok([minute |-> s.minute, aware |-> s.tz # ""])

\* a - b on datetimes, in minutes: naive and aware do not mix (TypeError).
datetime_sub(a, b) ==
    IF a.aware # b.aware THEN Raise("TypeError") ELSE Ok(a.minute - b.minute)

\* The minute at which the detector is called.
Now == 24 * 60

\* datetime.utcnow(): naive.
utcnow == [minute |-> Now, aware |-> FALSE]

(***************************************************************************)
(* FakeReportDetector._check_temporal_patterns                             *)
(***************************************************************************)
\* Whether the loop body counts the report: the inner try absorbs
\* ValueError and TypeError.
CountsAsRecent(report) ==
    LET created_at == report.created_at
    IN IF created_at.fmt \in {"None", "empty"} THEN FALSE
       ELSE LET report_time == fromisoformat(ReplaceZ(created_at))
            IN IF report_time.exc # "none" THEN FALSE
               ELSE LET time_diff == datetime_sub(utcnow, report_time.val)
                    IN IF time_diff.exc # "none" THEN FALSE
                       ELSE time_diff.val <= temporal_window_minutes

recent_count(recent_reports) ==
    Cardinality({i \in 1..Len(recent_reports) : CountsAsRecent(recent_reports[i])})

\* Variant: the thresholds tested from the lowest up.
check_temporal_patterns_low_first(recent_reports) ==
    IF recent_reports = <<>> THEN Ok(0)
    ELSE LET n == recent_count(recent_reports)
         IN IF n >= 2 THEN Ok(300)
            ELSE IF n >= 3 THEN Ok(500)
            ELSE IF n >= 5 THEN Ok(800)
            ELSE Ok(0)

\* Variant: a created_at that does not parse ends the count at 0.0, as the
\* outer except would.
check_temporal_patterns_abort(recent_reports) ==
    IF recent_reports = <<>> THEN Ok(0)
    ELSE IF \E i \in 1..Len(recent_reports) :
               /\ recent_reports[i].created_at.fmt \notin {"None", "empty"}
               /\ fromisoformat(ReplaceZ(recent_reports[i].created_at)).exc # "none"
    THEN Ok(0)
    ELSE LET n == recent_count(recent_reports)
         IN IF n >= 5 THEN Ok(800)
            ELSE IF n >= 3 THEN Ok(500)
            ELSE IF n >= 2 THEN Ok(300)
            ELSE Ok(0)

check_temporal_patterns(recent_reports) ==
    IF recent_reports = <<>> THEN Ok(0)
    ELSE LET n == recent_count(recent_reports)
         IN IF n >= 5 THEN Ok(800)
            ELSE IF n >= 3 THEN Ok(500)
            ELSE IF n >= 2 THEN Ok(300)
            ELSE Ok(0)

(***************************************************************************)
(* FakeReportDetector.is_fake                                              *)
(***************************************************************************)
\* Variant: the corpus takes report["text"] only, never voice_text.
RECURSIVE BuildCorpus_text_only(_)
BuildCorpus_text_only(recent_reports) ==
    IF recent_reports = <<>> THEN <<>>
    ELSE (IF Truthy(Head(recent_reports).text)
          THEN <<Head(recent_reports).text>> ELSE <<>>)
         \o BuildCorpus_text_only(Tail(recent_reports))

\* Variant: the loop ends at the first report that has neither field.
RECURSIVE BuildCorpus_stop_at_empty(_)
BuildCorpus_stop_at_empty(recent_reports) ==
    IF recent_reports = <<>> THEN <<>>
    ELSE LET report == Head(recent_reports)
             report_text == PyOr(report.text, PyOr(report.voice_text, <<>>))
         IN IF Truthy(report_text)
            THEN <<report_text>> \o BuildCorpus_stop_at_empty(Tail(recent_reports))
            ELSE <<>>

\* The corpus loop: text, else voice_text, of each report that has one.
RECURSIVE BuildCorpus(_)
BuildCorpus(recent_reports) ==
    IF recent_reports = <<>> THEN <<>>
    ELSE LET report == Head(recent_reports)
             report_text == PyOr(report.text, PyOr(report.voice_text, <<>>))
         IN (IF Truthy(report_text) THEN <<report_text>> ELSE <<>>)
            \o BuildCorpus(Tail(recent_reports))

\* The first exception among the calls, in call order ("none": none).
FirstExc(excs) ==
    LET raised == {i \in 1..Len(excs) : excs[i] # "none"}
    IN IF raised = {} THEN "none"
       ELSE excs[CHOOSE i \in raised : \A j \in raised : i <= j]

NoSignals ==
    [content |-> 0, sim_evaluated |-> FALSE, similarity |-> 0,
     prox_evaluated |-> FALSE, proximity |-> 0, temporal |-> 0]

\* The result record:
\*   exc          the exception that leaves is_fake ("none": it returns)
\*   is_fake      final_score >= similarity_threshold
\*   total_score  sum of weight * score over the evaluated signals
\*   weight_sum   sum of the evaluated signals' weights (tenths)
\*                final_score is total_score / weight_sum (thousandths)
\*   signals      what each signal evaluated to, and whether it was evaluated
\*   vectorizer   self.vectorizer after the call
\* The corpus is_fake hands to the similarity scorer; empty when the
\* similarity signal is not evaluated.
SimilarityCorpus(text, recent_reports) ==
    IF Truthy(text) /\ recent_reports # <<>> THEN BuildCorpus(recent_reports) ELSE <<>>

\* Variant: is_fake returns after content validation, on its score alone.
is_fake_given_short_circuit(sim, text, image_path, latitude, longitude, recent_reports) ==
    LET content == validate_content(text, image_path)
    IN [exc |-> content.exc,
        is_fake |-> content.val.suspicion >= similarity_threshold,
        total_score |-> content.val.suspicion * 3,
        weight_sum |-> 3,
        signals |-> [NoSignals EXCEPT !.content = content.val.suspicion],
        vectorizer |-> sim.vectorizer]

\* Variant: a near location scores 1.0.
is_fake_given_near_is_one(sim, text, image_path, latitude, longitude, recent_reports) ==
    LET content == validate_content(text, image_path)
        sim_evaluated == SimilarityCorpus(text, recent_reports) # <<>>
        prox_evaluated == latitude # None /\ longitude # None /\ recent_reports # <<>>
        is_near == IF prox_evaluated
                   THEN check_location_proximity(latitude, longitude, recent_reports)
                   ELSE Ok(FALSE)
        temporal == check_temporal_patterns(recent_reports)
        exc == FirstExc(<<content.exc, is_near.exc, temporal.exc>>)
        proximity_score == IF is_near.val THEN 1000 ELSE 0
        total_score == content.val.suspicion * 3
                     + (IF sim_evaluated THEN sim.val * 4 ELSE 0)
                     + (IF prox_evaluated THEN proximity_score * 2 ELSE 0)
                     + temporal.val * 1
        weight_sum == 3 + (IF sim_evaluated THEN 4 ELSE 0)
                        + (IF prox_evaluated THEN 2 ELSE 0) + 1
    IN IF exc # "none"
       THEN [exc |-> exc, is_fake |-> FALSE, total_score |-> 0, weight_sum |-> 0,
             signals |-> NoSignals, vectorizer |-> sim.vectorizer]
       ELSE [exc |-> "none",
             is_fake |-> IF weight_sum > 0
                         THEN total_score >= similarity_threshold * weight_sum
                         ELSE 0 >= similarity_threshold,
             total_score |-> IF weight_sum > 0 THEN total_score ELSE 0,
             weight_sum |-> weight_sum,
             signals |-> [content |-> content.val.suspicion,
                          sim_evaluated |-> sim_evaluated, similarity |-> sim.val,
                          prox_evaluated |-> prox_evaluated, proximity |-> proximity_score,
                          temporal |-> temporal.val],
             vectorizer |-> sim.vectorizer]

\* Variant: the temporal weight is added only for a non-empty window.
is_fake_given_temporal_if_window(sim, text, image_path, latitude, longitude, recent_reports) ==
    LET content == validate_content(text, image_path)
        sim_evaluated == SimilarityCorpus(text, recent_reports) # <<>>
        prox_evaluated == latitude # None /\ longitude # None /\ recent_reports # <<>>
        is_near == IF prox_evaluated
                   THEN check_location_proximity(latitude, longitude, recent_reports)
                   ELSE Ok(FALSE)
        temporal == check_temporal_patterns(recent_reports)
        exc == FirstExc(<<content.exc, is_near.exc, temporal.exc>>)
        proximity_score == IF is_near.val THEN 700 ELSE 0
        total_score == content.val.suspicion * 3
                     + (IF sim_evaluated THEN sim.val * 4 ELSE 0)
                     + (IF prox_evaluated THEN proximity_score * 2 ELSE 0)
                     + temporal.val * 1
        weight_sum == 3 + (IF sim_evaluated THEN 4 ELSE 0)
                        + (IF prox_evaluated THEN 2 ELSE 0)
                        + (IF recent_reports # <<>> THEN 1 ELSE 0)
    IN IF exc # "none"
       THEN [exc |-> exc, is_fake |-> FALSE, total_score |-> 0, weight_sum |-> 0,
             signals |-> NoSignals, vectorizer |-> sim.vectorizer]
       ELSE [exc |-> "none",
             is_fake |-> IF weight_sum > 0
                         THEN total_score >= similarity_threshold * weight_sum
                         ELSE 0 >= similarity_threshold,
             total_score |-> IF weight_sum > 0 THEN total_score ELSE 0,
             weight_sum |-> weight_sum,
             signals |-> [content |-> content.val.suspicion,
                          sim_evaluated |-> sim_evaluated, similarity |-> sim.val,
                          prox_evaluated |-> prox_evaluated, proximity |-> proximity_score,
                          temporal |-> temporal.val],
             vectorizer |-> sim.vectorizer]

\* Variant: a content score of 0.0 adds no weight.
is_fake_given_skip_clean_content(sim, text, image_path, latitude, longitude, recent_reports) ==
    LET content == validate_content(text, image_path)
        sim_evaluated == SimilarityCorpus(text, recent_reports) # <<>>
        prox_evaluated == latitude # None /\ longitude # None /\ recent_reports # <<>>
        is_near == IF prox_evaluated
                   THEN check_location_proximity(latitude, longitude, recent_reports)
                   ELSE Ok(FALSE)
        temporal == check_temporal_patterns(recent_reports)
        exc == FirstExc(<<content.exc, is_near.exc, temporal.exc>>)
        proximity_score == IF is_near.val THEN 700 ELSE 0
        total_score == content.val.suspicion * 3
                     + (IF sim_evaluated THEN sim.val * 4 ELSE 0)
                     + (IF prox_evaluated THEN proximity_score * 2 ELSE 0)
                     + temporal.val * 1
        weight_sum == (IF content.val.suspicion > 0 THEN 3 ELSE 0)
                        + (IF sim_evaluated THEN 4 ELSE 0)
                        + (IF prox_evaluated THEN 2 ELSE 0) + 1
    IN IF exc # "none"
       THEN [exc |-> exc, is_fake |-> FALSE, total_score |-> 0, weight_sum |-> 0,
             signals |-> NoSignals, vectorizer |-> sim.vectorizer]
       ELSE [exc |-> "none",
             is_fake |-> IF weight_sum > 0
                         THEN total_score >= similarity_threshold * weight_sum
                         ELSE 0 >= similarity_threshold,
             total_score |-> IF weight_sum > 0 THEN total_score ELSE 0,
             weight_sum |-> weight_sum,
             signals |-> [content |-> content.val.suspicion,
                          sim_evaluated |-> sim_evaluated, similarity |-> sim.val,
                          prox_evaluated |-> prox_evaluated, proximity |-> proximity_score,
                          temporal |-> temporal.val],
             vectorizer |-> sim.vectorizer]

\* is_fake from the point where the similarity call, if any, has returned
\* sim = [val, vectorizer].
is_fake_given(sim, text, image_path, latitude, longitude, recent_reports) ==
    LET content == validate_content(text, image_path)
        sim_evaluated == SimilarityCorpus(text, recent_reports) # <<>>
        prox_evaluated == latitude # None /\ longitude # None /\ recent_reports # <<>>
        is_near == IF prox_evaluated
                   THEN check_location_proximity(latitude, longitude, recent_reports)
                   ELSE Ok(FALSE)
        temporal == check_temporal_patterns(recent_reports)
        exc == FirstExc(<<content.exc, is_near.exc, temporal.exc>>)
        proximity_score == IF is_near.val THEN 700 ELSE 0
        total_score == content.val.suspicion * 3
                     + (IF sim_evaluated THEN sim.val * 4 ELSE 0)
                     + (IF prox_evaluated THEN proximity_score * 2 ELSE 0)
                     + temporal.val * 1
        weight_sum == 3 + (IF sim_evaluated THEN 4 ELSE 0)
                        + (IF prox_evaluated THEN 2 ELSE 0) + 1
    IN IF exc # "none"
       THEN [exc |-> exc, is_fake |-> FALSE, total_score |-> 0, weight_sum |-> 0,
             signals |-> NoSignals, vectorizer |-> sim.vectorizer]
       ELSE [exc |-> "none",
             is_fake |-> IF weight_sum > 0
                         THEN total_score >= similarity_threshold * weight_sum
                         ELSE 0 >= similarity_threshold,
             total_score |-> IF weight_sum > 0 THEN total_score ELSE 0,
             weight_sum |-> weight_sum,
             signals |-> [content |-> content.val.suspicion,
                          sim_evaluated |-> sim_evaluated, similarity |-> sim.val,
                          prox_evaluated |-> prox_evaluated, proximity |-> proximity_score,
                          temporal |-> temporal.val],
             vectorizer |-> sim.vectorizer]

is_fake(vec, text, image_path, latitude, longitude, recent_reports) ==
    LET corpus == SimilarityCorpus(text, recent_reports)
    IN is_fake_given(IF corpus # <<>> THEN calculate_text_similarity(vec, text, corpus)
                     ELSE [val |-> 0, vectorizer |-> vec],
                     text, image_path, latitude, longitude, recent_reports)

(***************************************************************************)
(* FakeReportDetector.get_detection_info                                   *)
(***************************************************************************)
\* The thresholds are attributes set in __init__ that no method assigns
\* again; the availability flag is read off self.vectorizer.
get_detection_info(vec) ==
    [vectorizer_available |-> vec.available,
     proximity_threshold_m |-> proximity_threshold_m,
     similarity_threshold |-> similarity_threshold,
     temporal_window_minutes |-> temporal_window_minutes,
     min_text_length |-> min_text_length]

(***************************************************************************)
(* utils/gps.py: normalize_location                                        *)
(***************************************************************************)
Location(lat, lng) == [t |-> "dict", latitude |-> lat, longitude |-> lng]
NoLocation == [t |-> "None", latitude |-> NoneField, longitude |-> NoneField]

\* The location dict of two coordinate strings that parse and lie in
\* range; None otherwise.
normalize_location(latitude, longitude) ==
    IF latitude = None \/ longitude = None THEN NoLocation
    ELSE LET lat == float(latitude)
             lng == float(longitude)
         IN IF lat.exc # "none" \/ lng.exc # "none" THEN NoLocation
            ELSE IF ~(-90000000 <= lat.val /\ lat.val <= 90000000) THEN NoLocation
            ELSE IF ~(-180000000 <= lng.val /\ lng.val <= 180000000) THEN NoLocation
            ELSE Location(Float(lat.val), Float(lng.val))

(***************************************************************************)
(* storage/db.py: CivicDB                                                  *)
(***************************************************************************)
\* CivicDB(): self.db is None when the connection failed.  The two
\* collections are sequences of documents in insertion order.
CivicDB(ok) == [connected |-> ok, reports |-> <<>>, users |-> <<>>]

is_connected(d) == d.connected

\* The None that find_user returns, as a user document.
NoUser == [username |-> "", role |-> ""]

\* users.find_one({"username": username}): the first such document, or None.
find_user(d, username) ==
    LET found == {i \in 1..Len(d.users) : d.users[i].username = username}
    IN IF ~d.connected \/ found = {} THEN NoUser
       ELSE d.users[CHOOSE i \in found : \A j \in found : i <= j]

\* users.insert_one(user) at the end of create_user.
insert_user(d, username) ==
    [d EXCEPT !.users = Append(@, [username |-> username, role |-> "citizen"])]

\* reports.insert_one(...); nothing is stored without a connection.
save_report(d, record) ==
    IF ~d.connected THEN d ELSE [d EXCEPT !.reports = Append(@, record)]

\* The documents by created_at, latest first; documents of the same
\* created_at stay in insertion order.
RECURSIVE SortByCreatedAtDesc(_)
SortByCreatedAtDesc(docs) ==
    IF docs = <<>> THEN <<>>
    ELSE LET latest == {i \in 1..Len(docs) :
                           \A j \in 1..Len(docs) :
                               docs[j].created_at.minute <= docs[i].created_at.minute}
             i == CHOOSE i \in latest : \A j \in latest : i <= j
         IN <<docs[i]>> \o
            SortByCreatedAtDesc(SubSeq(docs, 1, i - 1) \o SubSeq(docs, i + 1, Len(docs)))

\* reports.find().sort("created_at", -1).limit(limit)
list_reports(d, limit) ==
    IF ~d.connected THEN <<>>
    ELSE LET docs == SortByCreatedAtDesc(d.reports)
         IN SubSeq(docs, 1, Min(limit, Len(docs)))

(***************************************************************************)
(* The bounded inputs                                                      *)
(***************************************************************************)
\* "a pothole on road": a clean description.
TextClean == <<"a"," ","p","o","t","h","o","l","e"," ","o","n"," ","r","o","a","d">>
\* "big pothole on road": a near-duplicate of TextClean.
TextNear ==
    <<"b","i","g"," ","p","o","t","h","o","l","e"," ","o","n"," ","r","o","a","d">>
\* "broken lamp": shares no word with TextClean.
TextOther == <<"b","r","o","k","e","n"," ","l","a","m","p">>
\* "it is here": clean for the content checks, made of stop words only.
TextStop == <<"i","t"," ","i","s"," ","h","e","r","e">>
\* "FREEEEEEEEEEEEEEEEEEEEEE": upper case, repetitive, with a spam phrase.
TextShout ==
    <<"F","R","E","E","E","E","E","E","E","E","E","E",
      "E","E","E","E","E","E","E","E","E","E","E","E">>

Texts == {<<>>, TextClean, TextOther, TextStop, TextShout}

ImagePaths == {None, PathBig, PathMissing}

\* Latitude and longitude strings of the submission form.
LatHome == <<"0",".","0","0","0","4","5","0">>
LngHome == <<"0",".","0","0","0","9","0","0">>
LatInvalid == <<"2","0","0">>
Unparsable == <<"a","b","c">>

\* <<latitude, longitude>> pairs.
Coordinates ==
    { <<None, None>>, <<LatHome, None>>, <<LatHome, LngHome>>,
      <<LatInvalid, LngHome>>, <<Unparsable, LngHome>> }

\* The reports a recent window is made of.
\* Same text and place as the submission, stored by submit_report this minute.
ReportStored ==
    [text |-> TextClean, voice_text |-> None,
     location |-> Location(Float(450), Float(900)),
     created_at |-> IsoTimestamp(Now, "Z")]
\* Same text and place, with a naive timestamp of this minute.
ReportSame ==
    [text |-> TextClean, voice_text |-> None,
     location |-> Location(Float(450), Float(900)),
     created_at |-> IsoTimestamp(Now, "")]
\* A near-duplicate about 50 m away, ten minutes ago.
ReportNear ==
    [text |-> TextNear, voice_text |-> None,
     location |-> Location(Float(900), Float(900)),
     created_at |-> IsoTimestamp(Now - 10, "")]
\* A voice report of stop words only, without place or timestamp.
ReportVoice ==
    [text |-> None, voice_text |-> TextStop,
     location |-> NoLocation, created_at |-> NoTimestamp]
\* No text at all, a latitude that is no number, a timestamp that is none.
ReportMalformed ==
    [text |-> <<>>, voice_text |-> None,
     location |-> Location(StrField, Float(900)),
     created_at |-> GarbageTimestamp]

Reports == {ReportStored, ReportSame, ReportNear, ReportVoice, ReportMalformed}

\* A report with a text and another voice transcript.
ReportBoth ==
    [text |-> TextNear, voice_text |-> TextOther,
     location |-> NoLocation, created_at |-> NoTimestamp]
\* A dictated report: an empty text and a voice transcript.
ReportDictated ==
    [text |-> <<>>, voice_text |-> TextNear,
     location |-> NoLocation, created_at |-> NoTimestamp]

\* The reports of the windows the corpus is built from.
CorpusReports == {ReportBoth, ReportDictated, ReportVoice, ReportMalformed}

\* The texts submitted against them.
CorpusRequestTexts == {<<>>, TextClean, TextOther}

\* Reports at chosen distances north of the home coordinates (0.000450,
\* 0.000900): about 99.96 m, 100.07 m and 500 m.
ReportEdgeInside ==
    [text |-> TextOther, voice_text |-> None,
     location |-> Location(Float(1349), Float(900)),
     created_at |-> IsoTimestamp(Now - 10, "")]
ReportEdgeOutside ==
    [text |-> TextOther, voice_text |-> None,
     location |-> Location(Float(1350), Float(900)),
     created_at |-> IsoTimestamp(Now - 10, "")]
ReportFar ==
    [text |-> TextOther, voice_text |-> None,
     location |-> Location(Float(4950), Float(900)),
     created_at |-> IsoTimestamp(Now - 10, "")]
\* A location dict without a latitude, at the home longitude.
ReportHalf ==
    [text |-> TextOther, voice_text |-> None,
     location |-> Location(NoneField, Float(900)),
     created_at |-> IsoTimestamp(Now - 10, "")]

\* The reports of the windows handed to the proximity check directly.
ProxReports ==
    {ReportNear, ReportEdgeInside, ReportEdgeOutside, ReportFar,
     ReportVoice, ReportMalformed, ReportHalf}

LngInvalid == <<"-","1","8","1">>

\* The coordinate strings handed to the proximity check directly.
ProxCoordinates ==
    Coordinates \cup
    { <<LatHome, LngInvalid>>, <<LatInvalid, None>>, <<None, LngHome>>,
      <<LatInvalid, Unparsable>> }

\* The empty string of a form field left blank.
EmptyField == <<>>

\* The coordinate fields the submission form posts: blank, not a number,
\* or missing from the form (None).
FormCoordinates ==
    { <<EmptyField, EmptyField>>, <<Unparsable, LngHome>>, <<LatHome, Unparsable>>,
      <<LatHome, EmptyField>>, <<Unparsable, None>>, <<None, EmptyField>>,
      <<LatHome, LngHome>> }

\* The reports of the windows those submissions are scored against: none
\* of them near the home coordinates.
FormReports == {ReportFar, ReportVoice}

\* Longest window of a flood of duplicates.
MaxFlood == 5

\* The reports of such a window: the submission's own text and place a
\* moment ago, and an unrelated report far away and long ago.
ReportElsewhere ==
    [text |-> TextOther, voice_text |-> None,
     location |-> Location(Float(4950), Float(900)),
     created_at |-> IsoTimestamp(Now - 45, "")]
FloodReports == {ReportSame, ReportElsewhere}

\* The submissions scored against it.
FloodTexts == {TextClean, TextShout}
FloodCoordinates == {<<None, None>>, <<LatHome, LngHome>>}

\* A report known by its created_at alone.
TimedReport(created_at) ==
    [text |-> TextOther, voice_text |-> None, location |-> NoLocation,
     created_at |-> created_at]

\* The created_at values of the windows handed to the temporal check: five
\* minutes old as submit_report writes it ('Z' suffix), five minutes old
\* without suffix, 45 minutes old, missing, and not a timestamp.
Timestamps ==
    {IsoTimestamp(Now - 5, "Z"), IsoTimestamp(Now - 5, ""),
     IsoTimestamp(Now - 45, ""), NoTimestamp, GarbageTimestamp}

\* The created_at values of the windows that probe the edges of the
\* 30-minute window, all without suffix: five minutes old, 30 minutes old,
\* 31 minutes old, and an hour ahead of the detector's clock.
WindowTimestamps ==
    {IsoTimestamp(Now - 5, ""), IsoTimestamp(Now - 30, ""),
     IsoTimestamp(Now - 31, ""), IsoTimestamp(Now + 60, "")}

\* Longest window handed to the temporal check.
MaxBurst == 6

\* "hi": shorter than ten characters.
TextShort ==
    <<"h","i">>
\* "  hi        ": twelve characters, two after strip().
TextPadded ==
    <<" "," ","h","i"," "," "," "," "," "," "," "," ">>
\* "free": short, with one spam phrase.
TextSpamShort ==
    <<"f","r","e","e">>
\* "free stuff, act now": two spam phrases.
TextSpamTwice ==
    <<"f","r","e","e"," ","s","t","u","f","f",","," ","a","c","t"," ","n",
      "o","w">>
\* "aaaaaaaaaaaa": one character twelve times.
TextRepeat ==
    <<"a","a","a","a","a","a","a","a","a","a","a","a">>
\* "POTHOLE ON THE MAIN ROAD": upper case, longer than 20 characters.
TextUpper ==
    <<"P","O","T","H","O","L","E"," ","O","N"," ","T","H","E"," ","M","A",
      "I","N"," ","R","O","A","D">>

\* The texts and image references handed to content validation directly.
ContentTexts ==
    Texts \cup {TextShort, TextPadded, TextSpamShort, TextSpamTwice, TextRepeat,
                TextUpper}
ContentImages == {None, PathBig, PathSmall, PathMissing, PathVanishing}

\* Longest recent window.
MaxRecent == 2

\* Texts and corpora handed to the similarity scorer directly.
SimTexts == {<<>>, TextClean, TextStop}
CorpusTexts == {TextClean, TextNear, TextStop}

\* Longest corpus of a direct similarity call.
MaxCorpus == 2

Corpora == UNION {[1..n -> CorpusTexts] : n \in 0..MaxCorpus}

\* "it is": stop words only, two of the three words of TextStop.
TextStopShort == <<"i","t"," ","i","s">>

\* Texts and corpora of similarity calls whose documents may hold no term
\* at all, on which the vector computation raises.
ErrTexts == {TextClean, TextStop}
ErrCorpusTexts == {TextNear, TextStop, TextStopShort}
ErrCorpora == UNION {[1..n -> ErrCorpusTexts] : n \in 0..MaxCorpus}

\* The description field of the report form: missing, or a text.
SubmitTexts == {None, TextClean, TextOther}

\* The coordinate fields of the report form.
SubmitCoordinates == {<<None, None>>, <<LatHome, LngHome>>}

\* Most reports submitted in one run.
MaxSubmissions == 3

\* db.list_reports(limit=50) in submit_report.
ReportLimit == 50

\* The usernames of the signup form.
Usernames == {"asha", "ravi"}

\* Most signup requests served in one run.
MaxSignups == 3

\* The texts concurrent submissions carry.
ThreadTexts == {TextClean, TextOther, TextStop}

\* The request threads that share the detector.
Threads == {"t1", "t2"}

(***************************************************************************)
(* State                                                                   *)
(***************************************************************************)
VARIABLES
    vectorizer,   \* self.vectorizer: [available, idf_]
    recent,       \* the recent-report window the caller holds
    request,      \* the arguments of the pending or last is_fake call
    result,       \* what the last is_fake call returned
    pc,           \* "idle": no call yet, "ready": call pending, "done": returned
    simcall,      \* the pending or last _calculate_text_similarity call
    simprev,      \* the similarity call before it
    threads,      \* per request thread: [pc, request, result]
    probe,        \* the last direct call of one of the detector's methods
    db,           \* the CivicDB object: [connected, reports, users]
    http          \* per request thread: the handler it runs and its locals

vars ==
    <<vectorizer, recent, request, result, pc, simcall, simprev, threads, probe,
      db, http>>

NoRequest == [text |-> <<>>, image_path |-> None, latitude |-> None, longitude |-> None]

NoResult ==
    [exc |-> "none", is_fake |-> FALSE, total_score |-> 0, weight_sum |-> 0,
     signals |-> NoSignals]

NoSimCall == [text |-> <<>>, corpus |-> <<>>, val |-> 0]

IdleThread == [pc |-> "idle", request |-> NoRequest, result |-> NoResult]

\* A request thread that serves no request.
IdleHandler ==
    [handler |-> "none", pc |-> "idle", text |-> None, latitude |-> None,
     longitude |-> None, recent |-> <<>>, verdict |-> NoResult, report_id |-> 0,
     username |-> "", flash |-> ""]

\* No method has been called directly.
NoProbe ==
    [op |-> "none", text |-> <<>>, image_path |-> None, latitude |-> None,
     longitude |-> None, ret |-> 0]

\* What is_fake returns and records, without the vectorizer it leaves.
ResultOf(r) ==
    [exc |-> r.exc, is_fake |-> r.is_fake, total_score |-> r.total_score,
     weight_sum |-> r.weight_sum, signals |-> r.signals]

\* FakeReportDetector(): the import of the backend succeeds, or it fails
\* and the instance is left without a vectorizer.
Init ==
    /\ \/ vectorizer = ensure_vectorizer(TRUE)
       \/ vectorizer = ensure_vectorizer(FALSE)
    /\ recent = <<>>
    /\ request = NoRequest
    /\ result = NoResult
    /\ pc = "idle"
    /\ simcall = NoSimCall
    /\ simprev = NoSimCall
    /\ threads = [t \in Threads |-> IdleThread]
    /\ probe = NoProbe
    /\ db = CivicDB(TRUE)
    /\ http = [t \in Threads |-> IdleHandler]

\* create_app(): the detector and the database object are built; the
\* connection to the database succeeds or fails.
InitApp ==
    /\ \/ vectorizer = ensure_vectorizer(TRUE)
       \/ vectorizer = ensure_vectorizer(FALSE)
    /\ recent = <<>>
    /\ request = NoRequest
    /\ result = NoResult
    /\ pc = "idle"
    /\ simcall = NoSimCall
    /\ simprev = NoSimCall
    /\ threads = [t \in Threads |-> IdleThread]
    /\ probe = NoProbe
    /\ \/ db = CivicDB(TRUE)
       \/ db = CivicDB(FALSE)
    /\ http = [t \in Threads |-> IdleHandler]

(***************************************************************************)
(* Spec: is_fake called on the detector, one call after another            *)
(***************************************************************************)
\* A report enters the window the caller will pass to the detector.
Arrive(report) ==
    /\ pc = "idle"
    /\ \A t \in Threads : threads[t].pc = "idle"
    /\ Len(recent) < MaxRecent
    /\ recent' = Append(recent, report)
    /\ UNCHANGED <<vectorizer, request, result, pc, simcall, simprev, threads, probe, db, http>>

\* A submission reaches the caller.
Request(text, image_path, coords) ==
    /\ pc # "ready"
    /\ request' = [text |-> text, image_path |-> image_path,
                   latitude |-> coords[1], longitude |-> coords[2]]
    /\ result' = NoResult
    /\ pc' = "ready"
    /\ UNCHANGED <<vectorizer, recent, simcall, simprev, threads, probe, db, http>>

\* fake_detector.is_fake(text, image_path, latitude, longitude, recent)
Call ==
    /\ pc = "ready"
    /\ LET r == is_fake(vectorizer, request.text, request.image_path,
                        request.latitude, request.longitude, recent)
       IN /\ result' = ResultOf(r)
          /\ vectorizer' = r.vectorizer
    /\ pc' = "done"
    /\ UNCHANGED <<recent, request, simcall, simprev, threads, probe, db, http>>

Next ==
    \/ \E report \in Reports : Arrive(report)
    \/ \E text \in Texts, image_path \in ImagePaths, coords \in Coordinates :
          Request(text, image_path, coords)
    \/ Call

Spec == Init /\ [][Next]_vars

(***************************************************************************)
(* SpecCorpus: is_fake on windows whose reports carry text, voice_text,    *)
(* both or neither                                                         *)
(***************************************************************************)
NextCorpus ==
    \/ \E report \in CorpusReports : Arrive(report)
    \/ \E text \in CorpusRequestTexts : Request(text, None, <<None, None>>)
    \/ Call

SpecCorpus == Init /\ [][NextCorpus]_vars

(***************************************************************************)
(* SpecForm: is_fake on the coordinate fields of the submission form       *)
(***************************************************************************)
NextForm ==
    \/ \E report \in FormReports : Arrive(report)
    \/ \E coords \in FormCoordinates : Request(TextClean, None, coords)
    \/ Call

SpecForm == Init /\ [][NextForm]_vars

(***************************************************************************)
(* SpecFlood: is_fake on windows long enough for every signal to reach     *)
(* its largest value                                                       *)
(***************************************************************************)
\* A report enters the window the caller will pass to the detector.
Flood(report) ==
    /\ pc = "idle"
    /\ Len(recent) < MaxFlood
    /\ recent' = Append(recent, report)
    /\ UNCHANGED <<vectorizer, request, result, pc, simcall, simprev, threads, probe, db, http>>

NextFlood ==
    \/ \E report \in FloodReports : Flood(report)
    \/ \E text \in FloodTexts, coords \in FloodCoordinates : Request(text, None, coords)
    \/ Call

SpecFlood == Init /\ [][NextFlood]_vars

(***************************************************************************)
(* SpecSim: _calculate_text_similarity called on the detector, one call    *)
(* after another                                                           *)
(***************************************************************************)
SimRequest(text, corpus) ==
    /\ pc # "ready"
    /\ simprev' = simcall
    /\ simcall' = [text |-> text, corpus |-> corpus, val |-> 0]
    /\ pc' = "ready"
    /\ UNCHANGED <<vectorizer, recent, request, result, threads, probe, db, http>>

SimCall ==
    /\ pc = "ready"
    /\ LET r == calculate_text_similarity(vectorizer, simcall.text, simcall.corpus)
       IN /\ simcall' = [simcall EXCEPT !.val = r.val]
          /\ vectorizer' = r.vectorizer
    /\ pc' = "done"
    /\ UNCHANGED <<recent, request, result, simprev, threads, probe, db, http>>

NextSim ==
    \/ \E text \in SimTexts, corpus \in Corpora : SimRequest(text, corpus)
    \/ SimCall

SpecSim == Init /\ [][NextSim]_vars

(***************************************************************************)
(* SpecSimError: similarity calls among which some make the vector         *)
(* computation raise                                                       *)
(***************************************************************************)
NextSimError ==
    \/ \E text \in ErrTexts, corpus \in ErrCorpora : SimRequest(text, corpus)
    \/ SimCall

SpecSimError == Init /\ [][NextSimError]_vars

(***************************************************************************)
(* SpecConc: two request threads inside is_fake on the one detector that   *)
(* create_app builds.  Between the steps of one thread the other may run;  *)
(* the vectorizer object is the only thing they share.                     *)
(***************************************************************************)
ThreadCorpus(t) == SimilarityCorpus(threads[t].request.text, recent)

ThreadX(t) == vec_count(<<threads[t].request.text>> \o ThreadCorpus(t)).val

Finish(t, sim) ==
    LET q == threads[t].request
    IN ResultOf(is_fake_given(sim, q.text, q.image_path, q.latitude, q.longitude,
                              recent))

\* Thread t enters is_fake and runs up to the fit on the shared vectorizer.
\* A call that never reaches the fit (no corpus, no backend, empty
\* vocabulary) shares nothing and runs to its end.
Enter(t, text) ==
    /\ pc = "idle"
    /\ threads[t].pc = "idle"
    /\ LET q == [NoRequest EXCEPT !.text = text]
           corpus == SimilarityCorpus(text, recent)
           reaches_fit == /\ corpus # <<>>
                          /\ vectorizer.available
                          /\ vec_count(<<text>> \o corpus).exc = "none"
       IN threads' =
            [threads EXCEPT ![t] =
               IF reaches_fit
               THEN [pc |-> "fit", request |-> q, result |-> NoResult]
               ELSE [pc |-> "done", request |-> q,
                     result |-> ResultOf(is_fake(vectorizer, text, None, None, None,
                                                 recent))]]
    /\ UNCHANGED <<vectorizer, recent, request, result, pc, simcall, simprev, probe, db, http>>

\* self._tfidf.fit(X): thread t stores its idf_ on the shared object.
Fit(t) ==
    /\ threads[t].pc = "fit"
    /\ vectorizer' = vec_fit(vectorizer, ThreadX(t))
    /\ threads' = [threads EXCEPT ![t].pc = "transform"]
    /\ UNCHANGED <<recent, request, result, pc, simcall, simprev, probe, db, http>>

\* self._tfidf.transform(X) with the idf_ the object holds now, the cosine
\* loop (or the except branch), and the rest of is_fake.
Transform(t) ==
    /\ threads[t].pc = "transform"
    /\ LET q == threads[t].request
           tfidf_matrix == vec_transform(vectorizer, ThreadX(t))
           val == IF tfidf_matrix.exc # "none"
                  THEN heuristic_text_similarity(q.text, ThreadCorpus(t))
                  ELSE MaxCosine(tfidf_matrix.val)
       IN threads' = [threads EXCEPT
                        ![t].pc = "done",
                        ![t].result = Finish(t, [val |-> val, vectorizer |-> vectorizer])]
    /\ UNCHANGED <<vectorizer, recent, request, result, pc, simcall, simprev, probe, db, http>>

NextConc ==
    \/ \E report \in Reports : Arrive(report)
    \/ \E t \in Threads, text \in ThreadTexts : Enter(t, text)
    \/ \E t \in Threads : Fit(t)
    \/ \E t \in Threads : Transform(t)

SpecConc == Init /\ [][NextConc]_vars

(***************************************************************************)
(* SpecSubmit: request threads in submit_report.  Each access to the       *)
(* database is a step of its own; other requests may run between the       *)
(* steps of one.                                                           *)
(***************************************************************************)
\* The submit_report requests between their first and their last step.
Submitting ==
    {t \in Threads : http[t].handler = "submit_report" /\ http[t].pc # "done"}

\* POST /submit_report: the form fields are read.
Submit(t, text, coords) ==
    /\ http[t].pc \in {"idle", "done"}
    /\ Len(db.reports) + Cardinality(Submitting) < MaxSubmissions
    /\ http' = [http EXCEPT ![t] =
                  [IdleHandler EXCEPT !.handler = "submit_report",
                                      !.pc = "list",
                                      !.text = text,
                                      !.latitude = coords[1],
                                      !.longitude = coords[2]]]
    /\ UNCHANGED <<vectorizer, recent, request, result, pc, simcall, simprev, threads,
                   probe, db>>

\* recent = [asdict(r) for r in db.list_reports(limit=50)]
ListReports(t) ==
    /\ http[t].handler = "submit_report" /\ http[t].pc = "list"
    /\ http' = [http EXCEPT ![t].recent = list_reports(db, ReportLimit),
                            ![t].pc = "detect"]
    /\ UNCHANGED <<vectorizer, recent, request, result, pc, simcall, simprev, threads,
                   probe, db>>

\* Variant: the detection step stores its verdict in the reports collection.
Detect_persisting(t) ==
    /\ http[t].handler = "submit_report" /\ http[t].pc = "detect"
    /\ LET r == is_fake(vectorizer, PyOr(http[t].text, <<>>), None,
                        http[t].latitude, http[t].longitude, http[t].recent)
       IN /\ http' = [http EXCEPT ![t].verdict = ResultOf(r), ![t].pc = "save"]
          /\ vectorizer' = r.vectorizer
          /\ db' = save_report(db, [report_id |-> 0,
                                    created_at |-> IsoTimestamp(Now, "Z"),
                                    text |-> http[t].text,
                                    voice_text |-> None,
                                    location |-> NoLocation,
                                    fake |-> r.is_fake,
                                    fake_score |-> <<r.total_score, r.weight_sum>>])
    /\ UNCHANGED <<recent, request, result, pc, simcall, simprev, threads, probe>>

\* fake_detector.is_fake(text or "", image_path, latitude, longitude, recent)
Detect(t) ==
    /\ http[t].handler = "submit_report" /\ http[t].pc = "detect"
    /\ LET r == is_fake(vectorizer, PyOr(http[t].text, <<>>), None,
                        http[t].latitude, http[t].longitude, http[t].recent)
       IN /\ http' = [http EXCEPT ![t].verdict = ResultOf(r), ![t].pc = "save"]
          /\ vectorizer' = r.vectorizer
    /\ UNCHANGED <<recent, request, result, pc, simcall, simprev, threads, probe, db>>

\* record = ReportRecord(...); db.save_report(record).  report_id stands
\* for uuid4().hex: a value no other record carries.
SaveReport(t) ==
    /\ http[t].handler = "submit_report" /\ http[t].pc = "save"
    /\ LET record == [report_id |-> Len(db.reports) + 1,
                      created_at |-> IsoTimestamp(Now, "Z"),
                      text |-> http[t].text,
                      voice_text |-> None,
                      location |-> normalize_location(http[t].latitude,
                                                      http[t].longitude),
                      fake |-> http[t].verdict.is_fake,
                      fake_score |-> <<http[t].verdict.total_score,
                                       http[t].verdict.weight_sum>>]
       IN /\ db' = save_report(db, record)
          /\ http' = [http EXCEPT ![t].report_id = record.report_id,
                                  ![t].pc = "done",
                                  ![t].flash = IF http[t].verdict.is_fake
                                               THEN "flagged" ELSE "submitted"]
    /\ UNCHANGED <<vectorizer, recent, request, result, pc, simcall, simprev, threads,
                   probe>>

NextSubmit ==
    \/ \E t \in Threads, text \in SubmitTexts, coords \in SubmitCoordinates :
          Submit(t, text, coords)
    \/ \E t \in Threads : ListReports(t)
    \/ \E t \in Threads : Detect(t)
    \/ \E t \in Threads : SaveReport(t)

SpecSubmit == InitApp /\ [][NextSubmit]_vars

(***************************************************************************)
(* SpecSignup: request threads in signup and CivicDB.create_user           *)
(***************************************************************************)
\* The signup requests between their first and their last step.
SigningUp ==
    {t \in Threads : http[t].handler = "signup" /\ http[t].pc # "done"}

\* POST /auth/signup: the form fields are read and the connection tested.
Signup(t, username) ==
    /\ http[t].pc \in {"idle", "done"}
    /\ Len(db.users) + Cardinality(SigningUp) < MaxSignups
    /\ http' = [http EXCEPT ![t] =
                  [IdleHandler EXCEPT
                      !.handler = "signup",
                      !.username = username,
                      !.pc = IF is_connected(db) THEN "find" ELSE "done",
                      !.flash = IF is_connected(db) THEN "" ELSE "db_error"]]
    /\ UNCHANGED <<vectorizer, recent, request, result, pc, simcall, simprev, threads,
                   probe, db>>

\* signup: if db.find_user(username): 'Username already exists'
FindUser(t) ==
    /\ http[t].handler = "signup" /\ http[t].pc = "find"
    /\ http' = [http EXCEPT
                  ![t].pc = IF find_user(db, http[t].username) # NoUser
                            THEN "done" ELSE "create",
                  ![t].flash = IF find_user(db, http[t].username) # NoUser
                               THEN "exists" ELSE ""]
    /\ UNCHANGED <<vectorizer, recent, request, result, pc, simcall, simprev, threads,
                   probe, db>>

\* create_user: if self.find_user(username): return False
CreateUserFind(t) ==
    /\ http[t].handler = "signup" /\ http[t].pc = "create"
    /\ http' = [http EXCEPT
                  ![t].pc = IF find_user(db, http[t].username) # NoUser
                            THEN "done" ELSE "insert",
                  ![t].flash = IF find_user(db, http[t].username) # NoUser
                               THEN "error" ELSE ""]
    /\ UNCHANGED <<vectorizer, recent, request, result, pc, simcall, simprev, threads,
                   probe, db>>

\* create_user: self.db.users.insert_one(user); return True
CreateUserInsert(t) ==
    /\ http[t].handler = "signup" /\ http[t].pc = "insert"
    /\ db' = insert_user(db, http[t].username)
    /\ http' = [http EXCEPT ![t].pc = "done", ![t].flash = "created"]
    /\ UNCHANGED <<vectorizer, recent, request, result, pc, simcall, simprev, threads,
                   probe>>

NextSignup ==
    \/ \E t \in Threads, username \in Usernames : Signup(t, username)
    \/ \E t \in Threads : FindUser(t)
    \/ \E t \in Threads : CreateUserFind(t)
    \/ \E t \in Threads : CreateUserInsert(t)

SpecSignup == InitApp /\ [][NextSignup]_vars

(***************************************************************************)
(* SpecProx: _check_location_proximity called directly on a window         *)
(***************************************************************************)
\* A report enters the window that the check will be given.
Locate(report) ==
    /\ probe.op = "none"
    /\ Len(recent) < MaxRecent
    /\ recent' = Append(recent, report)
    /\ UNCHANGED <<vectorizer, request, result, pc, simcall, simprev, threads, probe, db, http>>

\* self._check_location_proximity(latitude, longitude, recent)
CheckProximity(coords) ==
    /\ probe' = [NoProbe EXCEPT
                   !.op = "proximity",
                   !.latitude = coords[1],
                   !.longitude = coords[2],
                   !.ret = check_location_proximity(coords[1], coords[2], recent)]
    /\ UNCHANGED <<vectorizer, recent, request, result, pc, simcall, simprev, threads, db, http>>

NextProx ==
    \/ \E report \in ProxReports : Locate(report)
    \/ \E coords \in ProxCoordinates : CheckProximity(coords)

SpecProx == Init /\ [][NextProx]_vars

(***************************************************************************)
(* SpecTemporal: _check_temporal_patterns called directly on a window      *)
(***************************************************************************)
\* A report with the given created_at enters the window.
Stamp(created_at) ==
    /\ probe.op = "none"
    /\ Len(recent) < MaxBurst
    /\ recent' = Append(recent, TimedReport(created_at))
    /\ UNCHANGED <<vectorizer, request, result, pc, simcall, simprev, threads, probe, db, http>>

\* self._check_temporal_patterns(recent)
CheckTemporal ==
    /\ probe.op = "none"
    /\ probe' = [NoProbe EXCEPT !.op = "temporal",
                                !.ret = check_temporal_patterns(recent)]
    /\ UNCHANGED <<vectorizer, recent, request, result, pc, simcall, simprev, threads, db, http>>

NextTemporal ==
    \/ \E created_at \in Timestamps : Stamp(created_at)
    \/ CheckTemporal

SpecTemporal == Init /\ [][NextTemporal]_vars

(***************************************************************************)
(* SpecWindow: _check_temporal_patterns on timestamps around the edges of  *)
(* the window                                                              *)
(***************************************************************************)
NextWindow ==
    \/ \E created_at \in WindowTimestamps : Stamp(created_at)
    \/ CheckTemporal

SpecWindow == Init /\ [][NextWindow]_vars

(***************************************************************************)
(* SpecContent: _validate_content called directly                          *)
(***************************************************************************)
\* self._validate_content(text, image_path)
CheckContent(text, image_path) ==
    /\ probe' = [NoProbe EXCEPT !.op = "content",
                                !.text = text,
                                !.image_path = image_path,
                                !.ret = validate_content(text, image_path)]
    /\ UNCHANGED <<vectorizer, recent, request, result, pc, simcall, simprev, threads, db, http>>

NextContent ==
    \E text \in ContentTexts, image_path \in ContentImages :
        CheckContent(text, image_path)

SpecContent == Init /\ [][NextContent]_vars

(***************************************************************************)
(* Properties of is_fake                                                   *)
(***************************************************************************)
Returned == pc = "done" /\ result.exc = "none"

\* float(s) of a coordinate string that parses (0 otherwise).
ParsedOr0(s) == IF s = None \/ float(s).exc # "none" THEN 0 ELSE float(s).val

\* Report i of the window is at the submission's coordinates.
SamePlace(i) ==
    /\ request.latitude # None /\ float(request.latitude).exc = "none"
    /\ request.longitude # None /\ float(request.longitude).exc = "none"
    /\ recent[i].location.t = "dict"
    /\ recent[i].location.latitude = Float(ParsedOr0(request.latitude))
    /\ recent[i].location.longitude = Float(ParsedOr0(request.longitude))

\* Report i of the window was created in the minute of the call.
SameMinute(i) ==
    recent[i].created_at.fmt = "iso" /\ recent[i].created_at.minute = Now

\* The submission repeats report i: same text, same place, same minute.
IsDuplicateOf(i) ==
    /\ Truthy(request.text)
    /\ recent[i].text = request.text
    /\ SamePlace(i)
    /\ SameMinute(i)

\* C1: a clean submission that repeats a report of the window (same text,
\* same coordinates, same minute) is returned as fake with a score of at
\* least 0.7.
C1_DuplicateFlagged ==
    (/\ Returned
     /\ result.signals.content = 0
     /\ \E i \in 1..Len(recent) : IsDuplicateOf(i))
    => (result.is_fake /\ result.total_score >= 700 * result.weight_sum)

\* C2: the returned score lies in [0, 1] and is_fake is exactly
\* fake_score >= 0.7.
C2_ScoreInRange ==
    pc = "done" =>
        /\ result.exc = "none"
        /\ result.weight_sum > 0
        /\ 0 <= result.total_score
        /\ result.total_score <= 1000 * result.weight_sum
        /\ result.is_fake = (result.total_score >= 700 * result.weight_sum)

\* A returned call that flags the submission.
C2_Witness == Returned /\ result.is_fake /\ result.signals.content = 1000

\* The conditions under which the claim says a signal is evaluated, read off
\* the arguments of the call.
SimilarityDue ==
    /\ request.text # <<>>
    /\ \E i \in 1..Len(recent) :
          Truthy(recent[i].text) \/ Truthy(recent[i].voice_text)
ProximityDue ==
    request.latitude # None /\ request.longitude # None /\ recent # <<>>

\* C3: the score is the weighted sum of the evaluated signals over the sum
\* of their weights: content (0.3) and temporal (0.1) always, similarity
\* (0.4) iff the text is non-empty and some report yields corpus text,
\* proximity (0.2) iff both coordinates are present and the window is not
\* empty; a signal that is not evaluated adds to neither sum.
C3_WeightedAverage ==
    pc = "done" =>
        /\ result.signals.sim_evaluated = SimilarityDue
        /\ result.signals.prox_evaluated = ProximityDue
        /\ result.signals.content =
               validate_content(request.text, request.image_path).val.suspicion
        /\ result.signals.temporal = check_temporal_patterns(recent).val
        /\ result.weight_sum = 3 + (IF SimilarityDue THEN 4 ELSE 0)
                                 + (IF ProximityDue THEN 2 ELSE 0) + 1
        /\ result.total_score =
                 3 * result.signals.content
               + (IF SimilarityDue THEN 4 * result.signals.similarity ELSE 0)
               + (IF ProximityDue THEN 2 * result.signals.proximity ELSE 0)
               + 1 * result.signals.temporal

\* A call in which similarity is evaluated and proximity is not, with a
\* similarity strictly between 0 and 1.
C3_Witness ==
    /\ Returned
    /\ SimilarityDue /\ ~ProximityDue
    /\ result.signals.similarity > 0 /\ result.signals.similarity < 1000
    /\ result.weight_sum = 8

\* Empty text, no image, no coordinates, empty window.
EmptySubmission ==
    /\ request.text = <<>> /\ request.image_path = None
    /\ request.latitude = None /\ request.longitude = None
    /\ recent = <<>>

\* C4 as stated: for an empty submission the score is approximately 0.9
\* (within 0.05 of it).
C4_ScoreIsContentAlone ==
    (Returned /\ EmptySubmission) =>
        /\ result.total_score >= 850 * result.weight_sum
        /\ result.total_score <= 950 * result.weight_sum

\* C4, amended: for an empty submission the evaluated signals are content
\* validation at 0.9 and the temporal signal at 0.0, so the score is
\* (0.3 * 0.9 + 0.1 * 0.0) / 0.4 = 0.675, and the submission is not flagged.
C4_ScoreIsContentAndTemporal ==
    (pc = "done" /\ EmptySubmission) =>
        /\ result.exc = "none"
        /\ result.signals.content = 900
        /\ result.weight_sum = 4
        /\ result.total_score = 2700
        /\ ~result.is_fake

C4_Witness == Returned /\ EmptySubmission

\* C5: is_fake returns a (bool, float) and raises nothing, whatever the
\* coordinates, timestamps, locations, text fields and image reference.
C5_NeverRaises ==
    pc = "done" =>
        /\ result.exc = "none"
        /\ result.is_fake \in BOOLEAN
        /\ result.total_score \in Int /\ result.weight_sum \in Nat \ {0}

\* A call with an unparsable latitude, an unresolvable image and a window
\* that holds a report with a malformed location and timestamp and no text.
C5_Witness ==
    /\ pc = "done"
    /\ request.latitude = Unparsable
    /\ request.image_path = PathMissing
    /\ \E i \in 1..Len(recent) : recent[i] = ReportMalformed
    /\ \E i \in 1..Len(recent) : recent[i] = ReportVoice

\* C7: when the non-empty submitted text equals the text of a report of
\* the window, the similarity signal of the call is 1.0, with the backend
\* and without it.
C7_IdenticalTextScoresOne ==
    (/\ Returned
     /\ Truthy(request.text)
     /\ \E i \in 1..Len(recent) :
           PyOr(recent[i].text, PyOr(recent[i].voice_text, <<>>)) = request.text)
    => (result.signals.sim_evaluated /\ result.signals.similarity = 1000)

(***************************************************************************)
(* Properties of the similarity scorer                                     *)
(***************************************************************************)
\* |A /\ B| / |A \/ B| of the lowercased whitespace-token sets of two texts,
\* in thousandths; 0 when either set is empty.
WordOverlap(a, b) ==
    LET A == WordSet(a)
        B == WordSet(b)
    IN IF A = {} \/ B = {} THEN 0
       ELSE (1000 * Cardinality(A \cap B)) \div Cardinality(A \cup B)

BestWordOverlap(text, corpus) ==
    MaxOf({WordOverlap(text, corpus[i]) : i \in 1..Len(corpus)})

\* C6: without a backend the scorer returns, for non-empty text and corpus,
\* the largest word-set overlap |intersection| / |union| between the text
\* and a corpus text.
C6_FallbackWithoutBackend ==
    (/\ pc = "done"
     /\ ~vectorizer.available
     /\ simcall.text # <<>> /\ simcall.corpus # <<>>)
    => simcall.val = BestWordOverlap(simcall.text, simcall.corpus)

\* b is a near-duplicate of a: another text that shares at least half of
\* the words the two use.
NearDuplicate(a, b) == a # b /\ WordOverlap(a, b) >= 500

\* b shares no word with a.
Unrelated(a, b) == WordSet(a) \cap WordSet(b) = {}

\* C8: in either mode, a text scores strictly higher against a corpus that
\* holds a near-duplicate of it than against a corpus of unrelated texts.
\* Stated on two consecutive calls with the same text.
C8_NearDuplicateRanksHigher ==
    (/\ pc = "done"
     /\ simprev.text = simcall.text /\ simcall.text # <<>>
     /\ simprev.corpus # <<>>
     /\ \A i \in 1..Len(simprev.corpus) : Unrelated(simprev.text, simprev.corpus[i])
     /\ \E i \in 1..Len(simcall.corpus) : NearDuplicate(simcall.text, simcall.corpus[i]))
    => simcall.val > simprev.val

\* C10: a similarity call returns what the same call returns on a detector
\* that has made no call before, whatever calls the instance served
\* earlier.
C10_NoStateLeak ==
    pc = "done" =>
        simcall.val =
            calculate_text_similarity(ensure_vectorizer(vectorizer.available),
                                      simcall.text, simcall.corpus).val

\* A backend call that follows a backend call over another vocabulary, and
\* scores strictly between 0 and 1.
C10_Witness ==
    /\ pc = "done"
    /\ vectorizer.available
    /\ simprev.text # <<>> /\ simprev.corpus # <<>>
    /\ Vocabulary(<<simprev.text>> \o simprev.corpus)
         # Vocabulary(<<simcall.text>> \o simcall.corpus)
    /\ Vocabulary(<<simprev.text>> \o simprev.corpus) # {}
    /\ simcall.val > 0 /\ simcall.val < 1000

(***************************************************************************)
(* Properties of concurrent is_fake calls                                  *)
(***************************************************************************)
\* What thread t's call returns when nothing else runs on the detector.
AloneResult(t) ==
    LET q == threads[t].request
    IN ResultOf(is_fake(ensure_vectorizer(vectorizer.available), q.text,
                        q.image_path, q.latitude, q.longitude, recent))

\* C9: under every interleaving of two is_fake calls on the shared
\* detector, each call returns what it returns when run alone, and neither
\* raises.
C9_ConcurrentCallsIndependent ==
    \A t \in Threads :
        threads[t].pc = "done" =>
            /\ threads[t].result.exc = "none"
            /\ threads[t].result = AloneResult(t)

(***************************************************************************)
(* Properties of the proximity check                                       *)
(***************************************************************************)
ProximityCalled == probe.op = "proximity"

\* The input coordinate parses to a number (microdegrees).
Parses(c) == c # None /\ float(c).exc = "none"

LatOutOfRange ==
    Parses(probe.latitude) /\ Abs(ParsedOr0(probe.latitude)) > 90 * 1000000
LngOutOfRange ==
    Parses(probe.longitude) /\ Abs(ParsedOr0(probe.longitude)) > 180 * 1000000

\* Both input coordinates parse and lie in range.
ValidInput ==
    /\ Parses(probe.latitude) /\ Parses(probe.longitude)
    /\ ~LatOutOfRange /\ ~LngOutOfRange

\* The report offers a comparison: a location with two numbers.
Usable(report) ==
    /\ report.location.t = "dict"
    /\ report.location.latitude.t = "float"
    /\ report.location.longitude.t = "float"

\* Report i of the window is usable and within 100 m of the input point.
Within100m(i) ==
    /\ Usable(recent[i])
    /\ haversine_mm(ParsedOr0(probe.latitude), ParsedOr0(probe.longitude),
                    recent[i].location.latitude,
                    recent[i].location.longitude).val <= 100 * 1000

\* C11 as stated: an input latitude or longitude out of range gives True,
\* whatever the window holds.
C11_OutOfRangeIsNear ==
    (ProximityCalled /\ (LatOutOfRange \/ LngOutOfRange))
    => probe.ret = Ok(TRUE)

\* C11, amended: when both coordinates are given, an input latitude or
\* longitude out of range gives True, whatever the window holds; a missing
\* coordinate comes first and gives False.
C11_OutOfRangeIsNearWhenBothGiven ==
    (ProximityCalled /\ (LatOutOfRange \/ LngOutOfRange))
    => probe.ret = Ok(probe.latitude # None /\ probe.longitude # None)

\* An out-of-range latitude with a longitude in range, on a window whose
\* reports are all out of reach of any comparison.
C11_Witness ==
    /\ ProximityCalled
    /\ LatOutOfRange /\ Parses(probe.longitude) /\ ~LngOutOfRange
    /\ recent # <<>>
    /\ \A i \in 1..Len(recent) : ~Usable(recent[i]) \/ recent[i] = ReportFar
    /\ probe.ret = Ok(TRUE)

\* C12: for valid input coordinates the check is True iff some report with
\* a usable location lies within 100 m, bound included: 50 m and 99.96 m
\* give True, 100.07 m and 500 m give False.  (No pair of decimal
\* coordinates is exactly 100 m apart; the two edge reports are one
\* microdegree apart on either side of the bound.)
C12_NearIffWithin100m ==
    (ProximityCalled /\ ValidInput) =>
        /\ probe.ret = Ok(\E i \in 1..Len(recent) : Within100m(i))
        /\ recent = <<ReportNear>> => probe.ret.val
        /\ recent = <<ReportEdgeInside>> => probe.ret.val
        /\ recent = <<ReportEdgeOutside>> => ~probe.ret.val
        /\ recent = <<ReportFar>> => ~probe.ret.val

\* A far report followed by one just inside the bound: True.
C12_Witness ==
    /\ ProximityCalled /\ ValidInput
    /\ recent = <<ReportFar, ReportEdgeInside>>
    /\ probe.ret = Ok(TRUE)

\* C13: a missing coordinate gives False; for valid input the check does
\* not fail and answers as on the window without the reports whose
\* location is missing, null or malformed, so a window of only such
\* reports gives False and such a report hides no later report.
C13_UnusableReportsSkipped ==
    ProximityCalled =>
        /\ probe.ret.exc = "none"
        /\ (probe.latitude = None \/ probe.longitude = None) => probe.ret = Ok(FALSE)
        /\ ValidInput =>
             /\ probe.ret =
                  check_location_proximity(probe.latitude, probe.longitude,
                                           SelectSeq(recent, Usable))
             /\ (\A i \in 1..Len(recent) : ~Usable(recent[i])) => probe.ret = Ok(FALSE)
             /\ (\E i \in 1..Len(recent) : Within100m(i)) => probe.ret = Ok(TRUE)

\* A report with a non-numeric latitude ahead of a report 50 m away.
C13_Witness ==
    /\ ProximityCalled /\ ValidInput
    /\ recent = <<ReportMalformed, ReportNear>>
    /\ probe.ret = Ok(TRUE)

(***************************************************************************)
(* Properties of the temporal check                                        *)
(***************************************************************************)
TemporalCalled == probe.op = "temporal"

\* The score the claims give to a count of n reports (thousandths).
BurstScore(n) ==
    IF n >= 5 THEN 800 ELSE IF n >= 3 THEN 500 ELSE IF n = 2 THEN 300 ELSE 0

\* C14: the score is 0.8 for a count of five or more, 0.5 for three or
\* four, 0.3 for two and 0.0 below, where the count is the number of
\* reports the detector counts inside the window; it is one of the four
\* values and no smaller than the score of any shorter prefix of the window.
C14_ScoreByCount ==
    TemporalCalled =>
        /\ probe.ret = Ok(BurstScore(recent_count(recent)))
        /\ probe.ret.val \in {0, 300, 500, 800}
        /\ \A k \in 0..Len(recent) :
              /\ recent_count(SubSeq(recent, 1, k)) <= recent_count(recent)
              /\ check_temporal_patterns(SubSeq(recent, 1, k)).val <= probe.ret.val

\* A window of six with five reports counted.
C14_Witness ==
    /\ TemporalCalled
    /\ Len(recent) = 6 /\ recent_count(recent) = 5
    /\ probe.ret = Ok(800)

\* Report i carries an ISO timestamp of the last 30 minutes, with or
\* without the 'Z' suffix.
InsideWindow(i) ==
    /\ recent[i].created_at.fmt = "iso"
    /\ recent[i].created_at.tz \in {"", "Z", "+00:00"}
    /\ Now - recent[i].created_at.minute <= 30
    /\ Now - recent[i].created_at.minute >= 0

\* C15: reports whose 'Z'-suffixed created_at lies in the last 30 minutes
\* are counted: the score is that of the number of reports timestamped
\* inside the window, so six 'Z' reports of the last ten minutes give 0.8
\* and two of them among older reports give 0.3.
C15_ZSuffixCounted ==
    TemporalCalled =>
        probe.ret =
            Ok(BurstScore(Cardinality({i \in 1..Len(recent) : InsideWindow(i)})))

\* C16: a report whose created_at is missing or does not parse is neither
\* counted nor an error: the check answers as on the window without such
\* reports, wherever they stand.
C16_UnparsableSkipped ==
    TemporalCalled =>
        /\ probe.ret.exc = "none"
        /\ probe.ret =
             check_temporal_patterns(
                 SelectSeq(recent, LAMBDA r : r.created_at.fmt = "iso"))

\* Two reports of the last minutes with a missing and an unparsable
\* created_at before and between them.
C16_Witness ==
    /\ TemporalCalled
    /\ Len(recent) = 4
    /\ recent[1].created_at = GarbageTimestamp
    /\ recent[2].created_at = IsoTimestamp(Now - 5, "")
    /\ recent[3].created_at = NoTimestamp
    /\ recent[4].created_at = IsoTimestamp(Now - 5, "")
    /\ probe.ret = Ok(300)

(***************************************************************************)
(* Properties of content validation                                        *)
(***************************************************************************)
\* C17: with text and image both absent, content validation returns
\* (False, 0.9) and is_fake goes on: the temporal signal is evaluated and
\* weighted, proximity too when coordinates and a window are given, and
\* similarity is not (there is no text).
C17_BothAbsentDoesNotShortCircuit ==
    (pc = "done" /\ request.text = <<>> /\ request.image_path = None) =>
        /\ validate_content(request.text, request.image_path)
             = Ok([is_valid |-> FALSE, suspicion |-> 900])
        /\ result.exc = "none"
        /\ result.signals.content = 900
        /\ ~result.signals.sim_evaluated
        /\ result.signals.prox_evaluated = ProximityDue
        /\ result.signals.temporal = check_temporal_patterns(recent).val
        /\ result.weight_sum = 3 + (IF ProximityDue THEN 2 ELSE 0) + 1
        /\ result.total_score =
               3 * 900 + (IF ProximityDue THEN 2 * result.signals.proximity ELSE 0)
                       + result.signals.temporal

\* An empty submission with coordinates next to a report of the window, and
\* two reports counted by the temporal check.
C17_Witness ==
    /\ Returned
    /\ request.text = <<>> /\ request.image_path = None
    /\ result.signals.prox_evaluated /\ result.signals.proximity = 700
    /\ result.signals.temporal = 300
    /\ result.weight_sum = 6

ContentCalled == probe.op = "content"

\* The penalties of the text checks, as the claim lists them (thousandths).
ShortPenalty(t) == IF Len(Strip(t)) < 10 THEN 300 ELSE 0
UniquePenalty(t) ==
    IF 100 * Cardinality({Lower(t)[i] : i \in 1..Len(t)}) < 30 * Len(t)
    THEN 400 ELSE 0
SpamPenalty(t) ==
    IF \E ind \in spam_indicators : Contains(Lower(t), ind) THEN 500 ELSE 0
UpperPenalty(t) == IF IsUpper(t) /\ Len(t) > 20 THEN 200 ELSE 0

\* The penalty of the image checks, as the claim lists them.
ImagePenalty(p) ==
    IF p = None THEN 0
    ELSE IF p \notin DOMAIN FileSize THEN 300
    ELSE IF p \in Vanishing THEN 200
    ELSE IF FileSize[p] < 1024 THEN 400
    ELSE 0

\* C18: with text present the suspicion is the sum of the text penalties
\* that apply (the spam penalty once) and the image penalty, capped at 1.0,
\* and is_valid is True iff the returned suspicion is below 0.7.
C18_SuspicionIsCappedSum ==
    (ContentCalled /\ probe.text # <<>>) =>
        LET sum == ShortPenalty(probe.text) + UniquePenalty(probe.text)
                   + SpamPenalty(probe.text) + UpperPenalty(probe.text)
                   + ImagePenalty(probe.image_path)
        IN /\ probe.ret.exc = "none"
           /\ probe.ret.val.suspicion = Min(sum, 1000)
           /\ probe.ret.val.is_valid = (probe.ret.val.suspicion < 700)

\* Two spam phrases in a clean text with a sound image: 0.5, once.
C18_Witness ==
    /\ ContentCalled
    /\ probe.text = TextSpamTwice /\ probe.image_path = PathBig
    /\ probe.ret = Ok([is_valid |-> TRUE, suspicion |-> 500])

\* C19: with an image reference present, exactly one of +0.3 (does not
\* exist), +0.4 (under 1024 bytes), +0.2 (the check errors) or nothing is
\* added to the text's suspicion; the failure of the check raises neither
\* from the validator nor from is_fake.
C19_ImagePenalty ==
    (ContentCalled /\ probe.image_path # None) =>
        LET text_part == IF probe.text = <<>> THEN 0
                         ELSE validate_content(probe.text, None).val.suspicion
        IN /\ probe.ret.exc = "none"
           /\ ImagePenalty(probe.image_path) \in {0, 200, 300, 400}
           /\ probe.ret.val.suspicion
                = Min(text_part + ImagePenalty(probe.image_path), 1000)
           /\ is_fake(vectorizer, probe.text, probe.image_path, None, None,
                      <<>>).exc = "none"

\* An image that exists when looked for and is gone when measured.
C19_Witness ==
    /\ ContentCalled
    /\ probe.text = TextClean /\ probe.image_path = PathVanishing
    /\ probe.ret = Ok([is_valid |-> TRUE, suspicion |-> 200])

(***************************************************************************)
(* Properties of the detector's configuration                              *)
(***************************************************************************)
\* C20: no step of any sequence of is_fake calls changes the availability
\* of the backend decided at construction, nor what get_detection_info
\* reports: the flag, proximity 100 m, similarity threshold 0.7, temporal
\* window 30 minutes, minimum text length 10.
C20_ConfigurationFixed ==
    /\ [](/\ get_detection_info(vectorizer).proximity_threshold_m = 100
          /\ get_detection_info(vectorizer).similarity_threshold = 700
          /\ get_detection_info(vectorizer).temporal_window_minutes = 30
          /\ get_detection_info(vectorizer).min_text_length = 10)
    /\ [][get_detection_info(vectorizer') = get_detection_info(vectorizer)]_vars

\* A call that evaluated similarity has returned on an instance whose
\* backend failed to initialize.
C20_Witness ==
    /\ Returned
    /\ result.signals.sim_evaluated
    /\ ~get_detection_info(vectorizer).vectorizer_available

(***************************************************************************)
(* Properties of a failing vector computation                              *)
(***************************************************************************)
\* The vector computation of the call raises: text and corpus are given
\* and no document holds a term.
Throws(call) ==
    /\ call.text # <<>> /\ call.corpus # <<>>
    /\ Vocabulary(<<call.text>> \o call.corpus) = {}

\* Text and corpus are given and the documents hold terms.
WellFormed(call) ==
    /\ call.text # <<>> /\ call.corpus # <<>>
    /\ Vocabulary(<<call.text>> \o call.corpus) # {}

\* What the primary method gives on a detector that never failed: the
\* largest cosine of the tf-idf rows.
PrimaryValue(call) ==
    LET X == vec_count(<<call.text>> \o call.corpus).val
    IN MaxCosine(vec_transform(vec_fit(ensure_vectorizer(TRUE), X), X).val)

\* C21: on a detector with a backend, a call whose vector computation
\* raises returns the Jaccard value of its inputs and leaves the backend
\* available; the well-formed call that follows a failed one returns the
\* value of the primary method, as if no call had failed.
C21_FailureIsPerCall ==
    /\ []((pc = "done" /\ vectorizer.available) =>
            /\ Throws(simcall) =>
                  simcall.val = BestWordOverlap(simcall.text, simcall.corpus)
            /\ (Throws(simprev) /\ WellFormed(simcall)) =>
                  simcall.val = PrimaryValue(simcall))
    /\ [][vectorizer.available => vectorizer'.available]_vars

\* A failed call that returned the fallback value 2/3, followed by a
\* well-formed call that scores strictly between 0 and 1.
C21_Witness ==
    /\ pc = "done" /\ vectorizer.available
    /\ Throws(simprev) /\ simprev.val = 666
    /\ WellFormed(simcall)
    /\ simcall.val > 0 /\ simcall.val < 1000

(***************************************************************************)
(* Properties of the similarity corpus                                     *)
(***************************************************************************)
\* What a report contributes: its text if non-empty, otherwise its
\* voice_text if non-empty, otherwise nothing (<<>>).
Contribution(report) ==
    IF report.text # None /\ report.text # <<>> THEN report.text
    ELSE IF report.voice_text # None /\ report.voice_text # <<>> THEN report.voice_text
    ELSE <<>>

\* The contributions of the window's reports, in window order.
ExpectedCorpus ==
    LET kept == SelectSeq(recent, LAMBDA r : Contribution(r) # <<>>)
    IN [i \in 1..Len(kept) |-> Contribution(kept[i])]

\* C22: for a non-empty submitted text, the corpus is_fake builds holds, in
\* window order, each report's text or else its voice_text; reports with
\* neither are left out, and the similarity signal is evaluated, over that
\* corpus, as soon as one report contributes.
C22_CorpusOfTextOrVoice ==
    (pc = "done" /\ request.text # <<>>) =>
        /\ SimilarityCorpus(request.text, recent) = ExpectedCorpus
        /\ result.signals.sim_evaluated = (ExpectedCorpus # <<>>)
        /\ result.signals.sim_evaluated =>
              result.signals.similarity =
                  calculate_text_similarity(ensure_vectorizer(vectorizer.available),
                                            request.text, ExpectedCorpus).val

\* A report with neither field ahead of one with a text and another voice
\* transcript: the signal is evaluated and scores on the text.
C22_Witness ==
    /\ Returned
    /\ request.text = TextClean
    /\ recent = <<ReportMalformed, ReportBoth>>
    /\ result.signals.sim_evaluated
    /\ result.signals.similarity > 0

(***************************************************************************)
(* Properties of malformed coordinate fields                               *)
(***************************************************************************)
\* The coordinate field is present and is no number.
NotANumber(c) == c # None /\ float(c).exc # "none"

\* C24 as stated: a latitude or longitude that is present and is no number
\* makes the proximity check return True without raising, and is_fake, on
\* a non-empty window, scores proximity as near.
C24_UnparsableIsNear ==
    (/\ pc = "done"
     /\ NotANumber(request.latitude) \/ NotANumber(request.longitude))
    => /\ check_location_proximity(request.latitude, request.longitude, recent)
            = Ok(TRUE)
       /\ recent # <<>> =>
            (result.signals.prox_evaluated /\ result.signals.proximity = 700)

\* C24, amended: when both coordinates are present and one of them is no
\* number, the proximity check returns True without raising and is_fake,
\* on a non-empty window, scores proximity as near; when the other
\* coordinate is missing the check returns False and is_fake leaves the
\* proximity signal out.
C24_UnparsableIsNearWhenBothGiven ==
    (/\ pc = "done"
     /\ NotANumber(request.latitude) \/ NotANumber(request.longitude))
    => /\ result.exc = "none"
       /\ IF request.latitude # None /\ request.longitude # None
          THEN /\ check_location_proximity(request.latitude, request.longitude,
                                           recent) = Ok(TRUE)
               /\ recent # <<>> =>
                    (result.signals.prox_evaluated /\ result.signals.proximity = 700)
          ELSE /\ check_location_proximity(request.latitude, request.longitude,
                                           recent) = Ok(FALSE)
               /\ ~result.signals.prox_evaluated

\* Both fields left blank, scored against a window whose only located
\* report is 500 m away.
C24_Witness ==
    /\ Returned
    /\ request.latitude = EmptyField /\ request.longitude = EmptyField
    /\ recent = <<ReportFar>>
    /\ result.signals.prox_evaluated /\ result.signals.proximity = 700

(***************************************************************************)
(* Properties of the temporal window                                       *)
(***************************************************************************)
\* Report i was created in the 30 minutes that end at now.
InLast30Minutes(i) ==
    /\ recent[i].created_at.fmt = "iso"
    /\ recent[i].created_at.minute <= Now
    /\ recent[i].created_at.minute >= Now - 30

\* C25: a report is counted iff its created_at lies in the 30 minutes that
\* end at now: neither the reports older than that nor the reports dated
\* after now are counted.
C25_CountedIffInWindow ==
    TemporalCalled =>
        /\ recent_count(recent) = Cardinality({i \in 1..Len(recent) : InLast30Minutes(i)})
        /\ probe.ret =
             Ok(BurstScore(Cardinality({i \in 1..Len(recent) : InLast30Minutes(i)})))

(***************************************************************************)
(* Properties of the weighting                                             *)
(***************************************************************************)
\* C26: an evaluated proximity signal scores 0.7 when the proximity check
\* is True and 0.0 otherwise, never 1.0, and so adds at most 0.7 * 0.2 to
\* the weighted sum.
C26_ProximityScoresSevenTenths ==
    (pc = "done" /\ result.signals.prox_evaluated) =>
        /\ result.signals.proximity =
             (IF check_location_proximity(request.latitude, request.longitude,
                                          recent).val
              THEN 700 ELSE 0)
        /\ result.signals.proximity # 1000
        /\ result.total_score
             - 3 * result.signals.content
             - (IF result.signals.sim_evaluated THEN 4 * result.signals.similarity ELSE 0)
             - 1 * result.signals.temporal
           = 2 * result.signals.proximity
        /\ 2 * result.signals.proximity <= 2 * 700

\* A clean submission at the coordinates of a report of the window.
C26_Witness ==
    /\ Returned
    /\ request.text = TextClean
    /\ request.latitude = LatHome /\ request.longitude = LngHome
    /\ result.signals.prox_evaluated /\ result.signals.proximity = 700

\* C27: the weight sum of every call is one of 0.4, 0.6, 0.8 and 1.0
\* (tenths: 4, 6, 8, 10), hence positive: the score is always a quotient.
C27_WeightSumPositive ==
    pc = "done" =>
        /\ result.exc = "none"
        /\ result.weight_sum \in {4, 6, 8, 10}
        /\ result.weight_sum > 0

\* A call on an empty window with text and coordinates: content and
\* temporal alone, 0.4.
C27_Witness ==
    /\ Returned
    /\ recent = <<>>
    /\ request.text = TextClean
    /\ request.latitude = LatHome /\ request.longitude = LngHome
    /\ result.weight_sum = 4

\* C28: a submission with a content suspicion of 0 is never flagged and
\* scores below 0.7, whatever the window and the coordinates: the other
\* signals add at most 0.4 * 1.0 + 0.2 * 0.7 + 0.1 * 0.8.
C28_CleanContentNeverFlagged ==
    (pc = "done" /\ result.signals.content = 0) =>
        /\ result.exc = "none"
        /\ ~result.is_fake
        /\ result.total_score < 700 * result.weight_sum
        /\ result.total_score <= 4 * 1000 + 2 * 700 + 1 * 800

\* Every other signal at its largest: identical text (1.0), same place
\* (0.7), five reports in the window (0.8).
C28_Witness ==
    /\ Returned
    /\ result.signals.content = 0
    /\ result.signals.sim_evaluated /\ result.signals.similarity = 1000
    /\ result.signals.prox_evaluated /\ result.signals.proximity = 700
    /\ result.signals.temporal = 800
    /\ ~result.is_fake

(***************************************************************************)
(* Properties of submit_report and signup                                  *)
(***************************************************************************)
\* The report_ids of the documents of a window.
WindowIds(window) == {window[i].report_id : i \in 1..Len(window)}

\* Thread t's request has run is_fake in this step.
Detected(t) ==
    /\ http[t].handler = "submit_report"
    /\ http[t].pc = "detect"
    /\ http'[t].pc = "save"

\* C23: the step in which a request runs is_fake leaves the window it was
\* given as it was (length, order, every field), stores nothing in the
\* reports collection, and leaves the detector's thresholds as they were.
C23_NoSideEffects ==
    [][\A t \in Threads :
          Detected(t) =>
             /\ http'[t].recent = http[t].recent
             /\ db' = db
             /\ get_detection_info(vectorizer').proximity_threshold_m
                  = get_detection_info(vectorizer).proximity_threshold_m
             /\ get_detection_info(vectorizer').similarity_threshold
                  = get_detection_info(vectorizer).similarity_threshold
             /\ get_detection_info(vectorizer').temporal_window_minutes
                  = get_detection_info(vectorizer).temporal_window_minutes
             /\ get_detection_info(vectorizer').min_text_length
                  = get_detection_info(vectorizer).min_text_length]_vars

\* is_fake has returned on a window of two stored reports, and the
\* collection holds exactly those two.
C23_Witness ==
    \E t \in Threads :
        /\ http[t].handler = "submit_report" /\ http[t].pc = "save"
        /\ Len(http[t].recent) = 2
        /\ http[t].recent = list_reports(db, ReportLimit)
        /\ http[t].verdict.weight_sum > 0

\* Thread t's request is over and its report is in the collection.
Saved(t) ==
    /\ http[t].handler = "submit_report" /\ http[t].pc = "done"
    /\ \E i \in 1..Len(db.reports) : db.reports[i].report_id = http[t].report_id

\* C29: no report is scored against itself, and of two saved reports with
\* the same text at least one was scored with the other in its window,
\* however the two requests interleave.
C29_OneDuplicateSeesTheOther ==
    /\ \A t \in Threads :
          Saved(t) => http[t].report_id \notin WindowIds(http[t].recent)
    /\ \A t, u \in Threads :
          (/\ t # u
           /\ Saved(t) /\ Saved(u)
           /\ Truthy(http[t].text) /\ http[t].text = http[u].text)
          => \/ http[u].report_id \in WindowIds(http[t].recent)
             \/ http[t].report_id \in WindowIds(http[u].recent)

\* C30: the users collection never holds two documents with the same
\* username, and every document has the role 'citizen'.
C30_UsernamesUnique ==
    /\ \A i, j \in 1..Len(db.users) :
          i # j => db.users[i].username # db.users[j].username
    /\ \A i \in 1..Len(db.users) : db.users[i].role = "citizen"
====
